---- MODULE Spec2Model ----
(***************************************************************************)
(* Harmony Viewer: the embedded score viewers (viewer.js, the variant with *)
(* the activation gate) and the Reveal.js Deck Bridge (reveal-harmony.js,  *)
(* the harmony-activate / harmony-deactivate plugin).                      *)
(*                                                                         *)
(* Every viewer is one record of viewer.js's module state; a handler is a *)
(* function from that record to the record after the handler, which also   *)
(* carries the MIDI bytes put on the wire (out) and the messages posted to *)
(* the parent (posted).                                                    *)
(*                                                                         *)
(* Spec      one viewer page from the moment its script has run: the       *)
(*           embedded viewer A in a slide of a deck, or the standalone     *)
(*           page S.                                                       *)
(* SpecDeck  a deck with the embedded viewers A and B, both loaded.        *)
(* SpecCalls highlightStep called directly with any argument.              *)
(* SpecNotes one loaded viewer page that is played, its note-length        *)
(*           timeouts firing.                                              *)
(* SpecResize one loaded viewer page whose height reports the bridge's     *)
(*           listener handles.                                             *)
(* SpecScore a standalone viewer page that loads any small score.         *)
(***************************************************************************)
EXTENDS Integers, Sequences, FiniteSets, TLC

VARIABLES
    opened,       \* the viewer pages of this run
    score,        \* the note groups (g.note) of the SVG that Verovio renders
                  \* for the score of this run, in document order
    midiAccess,   \* the MIDI ports of the browser: inputs and outputs (names)
    slideOf,      \* deck layout: the slide section holding each harmony iframe
    current,      \* deck.getCurrentSlide(), NoSlide before Reveal is ready
    inbox,        \* per viewer: cross-frame messages posted and not yet handled
    st,           \* per viewer: the module state of viewer.js
    sent,         \* per viewer: MIDI messages it put on the wire in the latest
                  \* handler run (none if that handler ran in another viewer)
    posted,       \* per viewer: messages it posted to its parent in that run
    wire24,       \* per viewer: value of the latest CC 24 it put on the wire
    wire23,       \* per viewer: value of the latest CC 23 it put on the wire
    frames,       \* per harmony iframe of the deck: the height of the iframe
                  \* and of its slide section, whether deck.layout() ran for
                  \* it, and the latest height report of its viewer that the
                  \* bridge's listener has handled
    began,        \* per viewer: the handler that ran last was this viewer's
                  \* handling of a harmony-activate, and the viewer was
                  \* active when it began
    alt,          \* the page of the alternative protocol's viewer
    pick,         \* a call of pickMidiPort: the ports, the hint, and the
                  \* port returned once the call has run
    lastCall      \* per viewer: the latest harmony-activate / -deactivate it
                  \* handled (arg: the slideIndex of the activate) or direct
                  \* call of highlightStep (arg: the stepIndex), and whether
                  \* an output port was bound when it began

vars == <<opened, score, midiAccess, slideOf, current, inbox, st, sent,
          posted, wire24, wire23, frames, began, lastCall, alt, pick>>

(***************************************************************************)
(* Bounds of the model.                                                    *)
(***************************************************************************)
NumChords == 1      \* chords of the score that is loaded
MaxQueue == 1       \* unhandled messages per viewer
MaxTimers == 2      \* pending note-length timeouts per viewer
MaxH == 2           \* largest horizontal slide index of the deck

Embedded == {"A", "B"}
Standalone == {"S"}
Viewers == Embedded \cup Standalone

\* window.self !== window.top
IS_EMBEDDED(v) == v \in Embedded

\* Number(x) of a value that is no number: NaN
NaN == -1000
\* a JavaScript null / undefined port, slide
NoPort == "null"
NoSlide == <<-1, -1>>

Max2(a, b) == IF a >= b THEN a ELSE b
Min2(a, b) == IF a <= b THEN a ELSE b

\* a set of integers as the ascending sequence of its elements
RECURSIVE SortedSeq(_)
SortedSeq(S) ==
    IF S = {} THEN <<>>
    ELSE LET m == CHOOSE x \in S : \A y \in S : x <= y
         IN  <<m>> \o SortedSeq(S \ {m})

(***************************************************************************)
(* Utilities of viewer.js                                                  *)
(***************************************************************************)
\* a clamp that forgets the upper limit
clampInt_NoUpper(n, lo, hi) ==
    IF n = NaN THEN lo ELSE Max2(lo, n)

clampInt(n, lo, hi) ==
    IF n = NaN THEN lo ELSE Max2(lo, Min2(hi, n))

(***************************************************************************)
(* The score that is loaded: the note groups of the rendered SVG in        *)
(* document order, NumChords chords of three notes, alternately C-E-G and  *)
(* D-F-A in octave 4, each chord at one x position.  A note group has its  *)
(* id, the x of the translate(x, y) of its notehead's use element (use:    *)
(* the group has such an element), the pname and oct the toolkit returns   *)
(* for it, and joined: it lies in the chord grouping (g.chord) of the note *)
(* group before it.                                                        *)
(***************************************************************************)
ChordPnames(i) == IF i % 2 = 1 THEN <<"c", "e", "g">> ELSE <<"d", "f", "a">>

SvgNotes ==
    [k \in 1..(3 * NumChords) |->
        LET i == ((k - 1) \div 3) + 1
            j == ((k - 1) % 3) + 1
        IN  [id |-> 10 * i + j, x |-> 300 * i,
             pname |-> ChordPnames(i)[j], oct |-> 4,
             joined |-> j > 1, use |-> TRUE]]

\* Math.round(x / BUCKET) with BUCKET = 3, for x >= 0
BucketOf(x) == (2 * x + 3) \div 6

\* entries.sort((a, b) => a.x - b.x): stable insertion by x
RECURSIVE SortByX(_)
SortByX(es) ==
    IF es = <<>> THEN <<>>
    ELSE LET rest == SortByX(SubSeq(es, 1, Len(es) - 1))
             e == es[Len(es)]
             before == SelectSeq(rest, LAMBDA r : r.x <= e.x)
             after == SelectSeq(rest, LAMBDA r : r.x > e.x)
         IN  before \o <<e>> \o after

\* a partitioner that opens a bucket for every note group and fills it with
\* the note groups that have a notehead
buildHarmonicStepsFromSvg_EmptyBuckets(notes) ==
    LET all == SortByX(SelectSeq(notes, LAMBDA g : g.x # NaN))
        entries == SelectSeq(all, LAMBDA g : g.use)
        keys == SortedSeq({BucketOf(all[k].x) : k \in 1..Len(all)})
        idsOf(key) ==
            LET es == SelectSeq(entries, LAMBDA e : BucketOf(e.x) = key)
            IN  [k \in 1..Len(es) |-> es[k].id]
    IN  [k \in 1..Len(keys) |-> idsOf(keys[k])]

\* one step per x bucket, buckets ascending, ids in sorted order; a note
\* group without a notehead use element, or whose x is no number, is skipped
buildHarmonicStepsFromSvg(notes) ==
    LET entries == SortByX(SelectSeq(notes, LAMBDA g : g.use /\ g.x # NaN))
        keys == SortedSeq({BucketOf(entries[k].x) : k \in 1..Len(entries)})
        idsOf(key) ==
            LET es == SelectSeq(entries, LAMBDA e : BucketOf(e.x) = key)
            IN  [k \in 1..Len(es) |-> es[k].id]
    IN  [k \in 1..Len(keys) |-> idsOf(keys[k])]

pnameToSemitone(pname) ==
    CASE pname = "c" -> 0
      [] pname = "d" -> 2
      [] pname = "e" -> 4
      [] pname = "f" -> 5
      [] pname = "g" -> 7
      [] pname = "a" -> 9
      [] pname = "b" -> 11
      [] OTHER -> NaN

\* a pitch code that counts octave 0's C as 0
midiFromPnameOct_Octave0(pname, oct) ==
    LET semi == pnameToSemitone(pname)
    IN  IF semi = NaN \/ oct = NaN THEN NaN ELSE oct * 12 + semi

midiFromPnameOct(pname, oct) ==
    LET semi == pnameToSemitone(pname)
    IN  IF semi = NaN \/ oct = NaN THEN NaN ELSE (oct + 1) * 12 + semi

\* vrvToolkit.getElementAttr(noteId)
getElementAttr(notes, noteId) ==
    LET hit == SelectSeq(notes, LAMBDA e : e.id = noteId)
    IN  IF hit = <<>> THEN [pname |-> "", oct |-> NaN]
        ELSE [pname |-> hit[1].pname, oct |-> hit[1].oct]

\* a resolver that gives up at the first note group it cannot resolve: no
\* step gets a pitch
computeStepPitches_Fatal(notes, steps) ==
    LET midi(id) == midiFromPnameOct(getElementAttr(notes, id).pname,
                                     getElementAttr(notes, id).oct)
        failed == \E k \in 1..Len(steps) :
                      \E n \in 1..Len(steps[k]) : midi(steps[k][n]) = NaN
    IN  [k \in 1..Len(steps) |->
            IF failed THEN <<>>
            ELSE SortedSeq({midi(steps[k][n]) : n \in 1..Len(steps[k])})]

\* pitches kept as they are found: in the order of the step's note groups,
\* a pitch once for every note group that has it
computeStepPitches_AsFound(notes, steps) ==
    [k \in 1..Len(steps) |->
        LET midi(id) == midiFromPnameOct(getElementAttr(notes, id).pname,
                                         getElementAttr(notes, id).oct)
            found == [n \in 1..Len(steps[k]) |-> midi(steps[k][n])]
        IN  SelectSeq(found, LAMBDA m : m # NaN)]

computeStepPitches(notes, steps) ==
    [k \in 1..Len(steps) |->
        LET midi(id) == midiFromPnameOct(getElementAttr(notes, id).pname,
                                         getElementAttr(notes, id).oct)
            pitches == {midi(steps[k][n]) : n \in 1..Len(steps[k])} \ {NaN}
        IN  SortedSeq(pitches)]

(***************************************************************************)
(* MIDI output of viewer.js.  A wire message is <<status, data1, data2>>:  *)
(* 176 = 0xb0 (control change, channel 0), 144 = 0x90 (note on).           *)
(***************************************************************************)
\* a sendCC that sends the value as it is
sendCC_NoClamp(s, cc, value) ==
    IF s.midiOut = NoPort THEN s
    ELSE [s EXCEPT !.out = Append(@, <<176, cc % 128, value>>)]

sendCC(s, cc, value) ==
    IF s.midiOut = NoPort THEN s
    ELSE [s EXCEPT !.out = Append(@, <<176, cc % 128, clampInt(value, 0, 127)>>)]

\* a step-count emission without the active gate
sendStepCountCc_Ungated(s) == sendCC(s, 23, Len(s.harmonicSteps))

sendStepCountCc(s) ==
    IF ~s.isActiveViewer THEN s ELSE sendCC(s, 23, Len(s.harmonicSteps))

sendSlideIndexCc(s, index) ==
    IF ~s.isActiveViewer THEN s ELSE sendCC(s, 24, index)

\* an all-notes-off that does not look at the port
sendAllNotesOff_Unguarded(s) ==
    [s EXCEPT !.out = Append(@, <<176, 123, 0>>)]

sendAllNotesOff(s) ==
    IF s.midiOut = NoPort THEN s ELSE sendCC(s, 123, 0)

\* the note-on burst, and the timeout that ends it with an all-notes-off
\* a note-on burst of the step's lowest pitch only
sendStepNotesAsMidi_FirstPitch(s, stepIndex) ==
    IF s.midiOut = NoPort THEN s
    ELSE LET pitches == IF stepIndex \in 1..Len(s.stepPitches)
                        THEN s.stepPitches[stepIndex] ELSE <<>>
             burst == [k \in 1..Min2(1, Len(pitches)) |->
                          <<144, clampInt(pitches[k], 0, 127), 100>>]
         IN  [s EXCEPT !.out = @ \o burst, !.timers = @ + 1]

\* a note-on burst that schedules no timeout
sendStepNotesAsMidi_NoTimeout(s, stepIndex) ==
    IF s.midiOut = NoPort THEN s
    ELSE LET pitches == IF stepIndex \in 1..Len(s.stepPitches)
                        THEN s.stepPitches[stepIndex] ELSE <<>>
             burst == [k \in 1..Len(pitches) |->
                          <<144, clampInt(pitches[k], 0, 127), 100>>]
         IN  [s EXCEPT !.out = @ \o burst]

\* a burst that sends the stored pitch codes as they are
sendStepNotesAsMidi_NoClamp(s, stepIndex) ==
    IF s.midiOut = NoPort THEN s
    ELSE LET pitches == IF stepIndex \in 1..Len(s.stepPitches)
                        THEN s.stepPitches[stepIndex] ELSE <<>>
             burst == [k \in 1..Len(pitches) |-> <<144, pitches[k], 100>>]
         IN  [s EXCEPT !.out = @ \o burst, !.timers = @ + 1]

sendStepNotesAsMidi(s, stepIndex) ==
    IF s.midiOut = NoPort THEN s
    ELSE LET pitches == IF stepIndex \in 1..Len(s.stepPitches)
                        THEN s.stepPitches[stepIndex] ELSE <<>>
             burst == [k \in 1..Len(pitches) |->
                          <<144, clampInt(pitches[k], 0, 127), 100>>]
         IN  [s EXCEPT !.out = @ \o burst, !.timers = @ + 1]

\* elViewer.offsetHeight: the laid-out height, 0 while nothing is rendered;
\* the score box is as high as the scaled SVG
offsetHeight(s) == IF s.svg THEN 480 * s.scale ELSE 0

\* the widths a window resize gives the container, in SVG widths
ContainerWidths == {1, 2}

\* fit to width: the scale is container width / SVG width; containerW is the
\* width of the viewer's container in SVG widths
applySvgFitToContainer(s) ==
    IF ~s.svg THEN s ELSE [s EXCEPT !.scale = s.containerW]

\* the lowest bottom edge of the note groups on the screen, plus 10; the
\* lowest notehead of every score of the model ends 40 units below the
\* SVG's top
computeGlobalAnalysisBaselineY(s) ==
    IF ~s.svg \/ Len(score) = 0 THEN NaN ELSE 40 * s.scale + 10

\* the ids for which svg.querySelector finds a note group
InSvg(ids) ==
    SelectSeq(ids, LAMBDA id : \E k \in 1..Len(score) : score[k].id = id)

\* the horizontal centre on the screen of the note groups ids (all in the
\* SVG): the mean of the centres of their bounding rectangles
ScreenCentre(s, ids) ==
    LET xOf(id) == SelectSeq(score, LAMBDA g : g.id = id)[1].x * s.scale
        RECURSIVE Sum(_)
        Sum(k) == IF k = 0 THEN 0 ELSE xOf(ids[k]) + Sum(k - 1)
    IN  Sum(Len(ids)) \div Len(ids)

notifyParentOfHeight(v, s) ==
    IF ~IS_EMBEDDED(v) THEN s
    ELSE [s EXCEPT !.posted =
             Append(@, [type |-> "viewer-height", height |-> offsetHeight(s)])]

\* a highlight that marks the new step's note groups and removes no mark
applySvgHighlight_NoClear(s, stepIndex) ==
    IF ~s.svg \/ stepIndex <= 0 THEN s
    ELSE LET ids == IF stepIndex \in 1..Len(s.harmonicSteps)
                    THEN s.harmonicSteps[stepIndex] ELSE <<>>
         IN  [s EXCEPT !.hv = @ \cup {ids[k] : k \in 1..Len(ids)}]

\* the ids of the note groups that carry the class hv-highlight afterwards
applySvgHighlight(s, stepIndex) ==
    IF ~s.svg THEN s
    ELSE IF stepIndex <= 0 THEN [s EXCEPT !.hv = {}]
    ELSE LET ids == IF stepIndex \in 1..Len(s.harmonicSteps)
                    THEN s.harmonicSteps[stepIndex] ELSE <<>>
         IN  [s EXCEPT !.hv = {ids[k] : k \in 1..Len(ids)}]

\* elOverlay.hidden = true
hideOverlay(s) == [s EXCEPT !.overlay = 0, !.overlayLeft = 0, !.overlayTop = 0]

\* an overlay that is placed under the lowest notehead of its own step: a
\* step further right in this drawing ends lower
updateAnalysisOverlay_OwnBaseline(s, stepIndex) ==
    IF ~s.analysis \/ stepIndex <= 0 THEN hideOverlay(s)
    ELSE IF stepIndex > Len(s.harmonicSteps) THEN hideOverlay(s)
    ELSE IF InSvg(s.harmonicSteps[stepIndex]) = <<>> THEN hideOverlay(s)
    ELSE IF s.baselineY = NaN THEN hideOverlay(s)
    ELSE [s EXCEPT !.overlay = stepIndex,
                   !.overlayLeft =
                       ScreenCentre(s, InSvg(s.harmonicSteps[stepIndex])),
                   !.overlayTop = s.baselineY + 6 + stepIndex]

\* the analysis overlay: overlay is the step whose analysis entry is shown,
\* 0 while the overlay is hidden; overlayLeft and overlayTop are the style
\* left and top of the overlay that is displayed (0 while it is hidden: both
\* are written again before the overlay is displayed again).  The analysis JSON, when the page has one, holds an entry
\* for every step of the score; baselineY is globalAnalysisBaselineY (NaN:
\* null).  The viewer's own rectangle starts at the screen's origin.
updateAnalysisOverlay(s, stepIndex) ==
    IF ~s.analysis \/ stepIndex <= 0 THEN hideOverlay(s)
    ELSE IF stepIndex > Len(s.harmonicSteps) THEN hideOverlay(s)
    ELSE IF InSvg(s.harmonicSteps[stepIndex]) = <<>> THEN hideOverlay(s)
    ELSE IF s.baselineY = NaN THEN hideOverlay(s)
    ELSE [s EXCEPT !.overlay = stepIndex,
                   !.overlayLeft =
                       ScreenCentre(s, InSvg(s.harmonicSteps[stepIndex])),
                   !.overlayTop = s.baselineY + 6]

\* a highlightStep without the active gate on the notes
highlightStep_Ungated(v, s, stepIndex) ==
    LET s1 == [s EXCEPT !.highlightedStep =
                  clampInt(stepIndex, 0, Len(s.harmonicSteps))]
        s2 == updateAnalysisOverlay(applySvgHighlight(s1, s1.highlightedStep),
                                    s1.highlightedStep)
        s3 == IF s2.highlightedStep > 0
              THEN sendStepNotesAsMidi(s2, s2.highlightedStep)
              ELSE sendAllNotesOff(s2)
    IN  notifyParentOfHeight(v, s3)

\* a highlightStep that does nothing in an inactive viewer
highlightStep_ActiveOnly(v, s, stepIndex) ==
    IF s.isActiveViewer THEN highlightStep_Ungated(v, s, stepIndex) ELSE s

highlightStep(v, s, stepIndex) ==
    LET s1 == [s EXCEPT !.highlightedStep =
                  clampInt(stepIndex, 0, Len(s.harmonicSteps))]
        s2 == updateAnalysisOverlay(applySvgHighlight(s1, s1.highlightedStep),
                                    s1.highlightedStep)
        s3 == IF s2.isActiveViewer /\ s2.highlightedStep > 0
              THEN sendStepNotesAsMidi(s2, s2.highlightedStep)
              ELSE sendAllNotesOff(s2)
    IN  notifyParentOfHeight(v, s3)

\* status & 0xf0
StatusType(status) == status - (status % 16)

\* a handler without the active gate
handleMidiMessage_Ungated(v, s, data) ==
    IF StatusType(data[1]) = 176 /\ (data[2] % 128) = 22
    THEN highlightStep(v, s, clampInt(data[3] % 128, 0, Len(s.harmonicSteps)))
    ELSE s

handleMidiMessage(v, s, data) ==
    IF ~s.isActiveViewer /\ IS_EMBEDDED(v) THEN s
    ELSE IF StatusType(data[1]) = 176 /\ (data[2] % 128) = 22
         THEN highlightStep(v, s, clampInt(data[3] % 128, 0, Len(s.harmonicSteps)))
         ELSE s

\* the debug button's click listener
wireDebug(v, s) ==
    LET next == IF s.highlightedStep + 1 > Len(s.harmonicSteps)
                THEN 0 ELSE s.highlightedStep + 1
    IN  highlightStep(v, s, next)

(***************************************************************************)
(* The window message listener of viewer.js.  A message is a record with a *)
(* type and a slideIndex (NaN when the field is missing).                  *)
(***************************************************************************)
\* an activation that starts the score over
onActivate_Restart(v, s, msg) ==
    LET s1 == [s EXCEPT !.isActiveViewer = TRUE,
                        !.currentSlideIndex =
                            clampInt(IF msg.slideIndex = NaN THEN 0
                                     ELSE msg.slideIndex, 0, 127)]
        s2 == sendStepCountCc(s1)
        s3 == sendSlideIndexCc(s2, s2.currentSlideIndex)
        s4 == highlightStep(v, s3, 0)
    IN  notifyParentOfHeight(v, s4)

\* an activation that does not re-apply the highlight
onActivate_NoReapply(v, s, msg) ==
    LET s1 == [s EXCEPT !.isActiveViewer = TRUE,
                        !.currentSlideIndex =
                            clampInt(IF msg.slideIndex = NaN THEN 0
                                     ELSE msg.slideIndex, 0, 127)]
        s2 == sendStepCountCc(s1)
        s3 == sendSlideIndexCc(s2, s2.currentSlideIndex)
    IN  notifyParentOfHeight(v, notifyParentOfHeight(v, s3))

onActivate(v, s, msg) ==
    LET s1 == [s EXCEPT !.isActiveViewer = TRUE,
                        !.currentSlideIndex =
                            clampInt(IF msg.slideIndex = NaN THEN 0
                                     ELSE msg.slideIndex, 0, 127)]
        s2 == sendStepCountCc(s1)
        s3 == sendSlideIndexCc(s2, s2.currentSlideIndex)
        s4 == highlightStep(v, s3, s3.highlightedStep)
    IN  notifyParentOfHeight(v, s4)

\* a deactivation that drops the steps and their pitches
onDeactivate_Unload(v, s, msg) ==
    [sendAllNotesOff([s EXCEPT !.isActiveViewer = FALSE]) EXCEPT
        !.harmonicSteps = <<>>, !.stepPitches = <<>>]

\* a deactivation that leaves the flag set
onDeactivate_KeepActive(v, s, msg) == sendAllNotesOff(s)

\* a deactivation that sends no all-notes-off
onDeactivate_NoNotesOff(v, s, msg) == [s EXCEPT !.isActiveViewer = FALSE]

onDeactivate(v, s, msg) ==
    sendAllNotesOff([s EXCEPT !.isActiveViewer = FALSE])

\* a step-count request that also resets the highlight
onRequestStepCount_Resets(v, s, msg) ==
    highlightStep(v, sendStepCountCc(s), 0)

onRequestStepCount(v, s, msg) ==
    sendStepCountCc(s)

\* event.data that is no object (a string, a number, null): it has no
\* fields, the two below are never read
NotAnObject == [type |-> "(no object)", slideIndex |-> NaN]

\* msg && typeof msg === "object"
IsObject(msg) == msg # NotAnObject

\* a listener that takes every message of another type for an activation
onMessage_AnyTypeActivates(v, s, msg) ==
    IF ~IsObject(msg) THEN s
    ELSE CASE msg.type = "harmony-deactivate" -> onDeactivate(v, s, msg)
           [] msg.type = "harmony-request-step-count" -> onRequestStepCount(v, s, msg)
           [] OTHER -> onActivate(v, s, msg)

onMessage(v, s, msg) ==
    IF ~IsObject(msg) THEN s
    ELSE CASE msg.type = "harmony-activate" -> onActivate(v, s, msg)
           [] msg.type = "harmony-deactivate" -> onDeactivate(v, s, msg)
           [] msg.type = "harmony-request-step-count" -> onRequestStepCount(v, s, msg)
           [] OTHER -> s

(***************************************************************************)
(* Start-up of viewer.js: initMidi, then loadAndRender.                    *)
(***************************************************************************)
\* no call of pickMidiPort
NoPick == [ports |-> <<>>, hint |-> "", result |-> NoPort, done |-> FALSE]

\* names of MIDI ports, and the hints of the URL a port is looked up with
PortNames ==
    {"IAC Max->Browser", "IAC Browser->Max", "Browser [U+2192] Max", "Max (Browser)", "USB Keyboard"}

IN_PORT_HINT == "max->browser"
OUT_PORT_HINT == "browser->max"

Hints == {"max->browser", "browser->max", "Max[U+2192]Browser", "midi2"}

\* the characters of a port name or hint; U+2192 is the rightwards arrow,
\* U+2794 and U+21D2 the other two arrows, U+2013 and U+2014 the dashes
Characters(name) ==
    CASE name = "IAC Max->Browser" ->
             <<"I", "A", "C", " ", "M", "a", "x", "-", ">", "B", "r", "o", "w", "s", "e", "r">>
      [] name = "IAC Browser->Max" ->
             <<"I", "A", "C", " ", "B", "r", "o", "w", "s", "e", "r", "-", ">", "M", "a", "x">>
      [] name = "Browser [U+2192] Max" ->
             <<"B", "r", "o", "w", "s", "e", "r", " ", "U+2192", " ", "M", "a", "x">>
      [] name = "Max (Browser)" ->
             <<"M", "a", "x", " ", "(", "B", "r", "o", "w", "s", "e", "r", ")">>
      [] name = "USB Keyboard" ->
             <<"U", "S", "B", " ", "K", "e", "y", "b", "o", "a", "r", "d">>
      [] name = "max->browser" ->
             <<"m", "a", "x", "-", ">", "b", "r", "o", "w", "s", "e", "r">>
      [] name = "browser->max" ->
             <<"b", "r", "o", "w", "s", "e", "r", "-", ">", "m", "a", "x">>
      [] name = "Max[U+2192]Browser" ->
             <<"M", "a", "x", "U+2192", "B", "r", "o", "w", "s", "e", "r">>
      [] name = "midi2" ->
             <<"m", "i", "d", "i", "2">>

\* haystack.includes(needle), on sequences of characters
includes(haystack, needle) ==
    \E i \in 0..(Len(haystack) - Len(needle)) :
        \A j \in 1..Len(needle) : haystack[i + j] = needle[j]

\* lower case; the arrows become "->", the long dashes "-"; white space and
\* every character outside a-z 0-9 < > - _ . is removed
normalizePortName(s) ==
    LET toLowerCase(c) ==
        CASE c = "A" -> "a"
          [] c = "B" -> "b"
          [] c = "C" -> "c"
          [] c = "I" -> "i"
          [] c = "K" -> "k"
          [] c = "M" -> "m"
          [] c = "S" -> "s"
          [] c = "U" -> "u"
          [] OTHER -> c
        replace(c) ==
            IF c \in {"U+2192", "U+2794", "U+21D2"} THEN <<"-", ">">>
            ELSE IF c \in {"U+2013", "U+2014"} THEN <<"-">>
            ELSE IF c \in {"a", "b", "c", "d", "e", "f", "g", "h", "i", "j", "k", "l", "m", "n", "o", "p", "q", "r", "s", "t", "u", "v", "w", "x", "y", "z", "0", "1", "2", "3", "4", "5", "6", "7", "8", "9", "<", ">", "-", "_", "."}
            THEN <<c>>
            ELSE <<>>
        RECURSIVE Norm(_)
        Norm(k) == IF k = 0 THEN <<>>
                   ELSE Norm(k - 1) \o replace(toLowerCase(Characters(s)[k]))
    IN  Norm(Len(Characters(s)))

\* a choice that gives up when no port matches the hint
pickMidiPort_NoFallback(ports, hint) ==
    LET hintNorm == normalizePortName(hint)
        direct == {k \in 1..Len(ports) :
                      includes(normalizePortName(ports[k]), hintNorm)}
    IN  IF direct = {} THEN NoPort
        ELSE ports[CHOOSE k \in direct : \A j \in direct : k <= j]

\* ports is Array.from(mapLike.values()), the ports by their names
pickMidiPort(ports, hint) ==
    LET hintNorm == normalizePortName(hint)
        find(test(_)) ==
            LET found == {k \in 1..Len(ports) : test(ports[k])}
            IN  IF found = {} THEN NoPort
                ELSE ports[CHOOSE k \in found : \A j \in found : k <= j]
        direct(x) == includes(normalizePortName(x), hintNorm)
        browser == <<"b", "r", "o", "w", "s", "e", "r">>
        max == <<"m", "a", "x">>
        wantsBrowser == includes(hintNorm, browser)
        wantsMax == includes(hintNorm, max)
        keywords(x) ==
            LET n == normalizePortName(x)
            IN  /\ (~wantsBrowser \/ includes(n, browser))
                /\ (~wantsMax \/ includes(n, max))
    IN  IF Len(ports) = 0 THEN NoPort
        ELSE IF find(direct) # NoPort THEN find(direct)
        ELSE IF (wantsBrowser \/ wantsMax) /\ find(keywords) # NoPort
        THEN find(keywords)
        ELSE ports[1]

initMidi(s) ==
    [s EXCEPT !.midiIn = pickMidiPort(midiAccess.inputs, IN_PORT_HINT),
              !.midiOut = pickMidiPort(midiAccess.outputs, OUT_PORT_HINT),
              !.pc = "fetch"]

\* a load that partitions and resolves at once, without the wait for the
\* next animation frame
loadAndRender_Eager(s) ==
    LET steps == buildHarmonicStepsFromSvg(score)
    IN  [s EXCEPT !.svg = TRUE, !.pc = "raf",
                  !.harmonicSteps = steps,
                  !.stepPitches = computeStepPitches(score, steps)]

\* the score is fetched, loaded and rendered into the page; the rest waits
\* for the next animation frame
loadAndRender(s) == [s EXCEPT !.svg = TRUE, !.pc = "raf"]

\* a callback whose partitioner reads the x of the noteheads on the screen
loadAndRenderFrame_Scaled(s) ==
    LET onScreen == [k \in 1..Len(score) |->
                        [score[k] EXCEPT !.x = IF @ = NaN THEN NaN
                                                ELSE @ * s.scale]]
        steps == buildHarmonicStepsFromSvg(onScreen)
    IN  [s EXCEPT !.harmonicSteps = steps,
                  !.stepPitches = computeStepPitches(score, steps),
                  !.pc = "analysis"]

\* the animation-frame callback up to the await of the analysis JSON
loadAndRenderFrame(s) ==
    LET steps == buildHarmonicStepsFromSvg(score)
    IN  [s EXCEPT !.harmonicSteps = steps,
                  !.stepPitches = computeStepPitches(score, steps),
                  !.pc = "analysis"]

\* the rest of the callback, once the analysis JSON is loaded or missing
\* (s.analysis): the fit, then the one shared baseline
\* an end of the load that sends no step count
loadAndRenderRest_NoCount(v, s) ==
    LET s1 == highlightStep(v, s, 0)
        s2 == IF ~IS_EMBEDDED(v) THEN [s1 EXCEPT !.isActiveViewer = TRUE] ELSE s1
        s3 == applySvgFitToContainer(s2)
        s4 == [s3 EXCEPT !.baselineY = computeGlobalAnalysisBaselineY(s3)]
    IN  [notifyParentOfHeight(v, s4) EXCEPT !.pc = "ready"]

loadAndRenderRest(v, s) ==
    LET s1 == highlightStep(v, s, 0)
        s2 == IF ~IS_EMBEDDED(v) THEN [s1 EXCEPT !.isActiveViewer = TRUE] ELSE s1
        s3 == applySvgFitToContainer(sendStepCountCc(s2))
        s4 == [s3 EXCEPT !.baselineY = computeGlobalAnalysisBaselineY(s3)]
    IN  [notifyParentOfHeight(v, s4) EXCEPT !.pc = "ready"]

\* the module state right after the script has run
InitialViewer(v) ==
    [pc |-> "initMidi", harmonicSteps |-> <<>>, stepPitches |-> <<>>,
     highlightedStep |-> 0, isActiveViewer |-> ~IS_EMBEDDED(v),
     currentSlideIndex |-> 0, midiIn |-> NoPort, midiOut |-> NoPort,
     svg |-> FALSE, hv |-> {}, analysis |-> FALSE, baselineY |-> NaN,
     containerW |-> 1, scale |-> 1,
     overlay |-> 0, overlayLeft |-> 0, overlayTop |-> 0,
     timers |-> 0, out |-> <<>>, posted |-> <<>>]

(***************************************************************************)
(* The Deck Bridge (reveal-harmony.js) and the deck.  A slide is           *)
(* <<indexh, indexv>>; the deck has the horizontal slides 0..MaxH.         *)
(***************************************************************************)
Slides == {<<h, 0>> : h \in 0..MaxH}

getHarmonyIframes == opened \cap Embedded

\* an event of Reveal: ready and slidechanged carry the indices, the
\* fragment events do not
RevealEvent(type, slide) ==
    IF type \in {"ready", "slidechanged"}
    THEN [type |-> type, indexh |-> slide[1], indexv |-> slide[2]]
    ELSE [type |-> type, indexh |-> NaN, indexv |-> NaN]

\* indices is deck.getIndices()
computeSlideIndex(event, indices) ==
    IF event.indexh # NaN
    THEN event.indexh * 100 + (IF event.indexv # NaN THEN event.indexv ELSE 0)
    ELSE indices[1] * 100 + indices[2]

\* a bridge that activates every iframe of the deck
activateCurrentIframe_All(iframe, cur, event) ==
    [type |-> "harmony-activate", slideIndex |-> computeSlideIndex(event, cur)]

\* the message activateCurrentIframe posts to the iframe, cur being
\* deck.getCurrentSlide()
activateCurrentIframe(iframe, cur, event) ==
    LET isActive == cur # NoSlide /\ slideOf[iframe] = cur
    IN  [type |-> IF isActive THEN "harmony-activate" ELSE "harmony-deactivate",
         slideIndex |-> computeSlideIndex(event, cur)]

\* the bridge's window message listener, for the message msg that the
\* window of the viewer source has posted
onResizeMessage(fr, source, msg) ==
    IF msg.type # "harmony-resize" THEN fr
    ELSE IF source \notin getHarmonyIframes THEN fr
    ELSE IF msg.height = NaN \/ msg.height <= 0 THEN fr
    ELSE [fr EXCEPT ![source].iframe = msg.height,
                    ![source].section = msg.height,
                    ![source].layout = TRUE]

(***************************************************************************)
(* Actions                                                                 *)
(***************************************************************************)
\* the bridge's listener handles a height report that viewer v has posted
BridgeRelay(v, k) ==
    /\ v \in getHarmonyIframes
    /\ k \in 1..Len(posted[v])
    /\ frames' = [onResizeMessage(frames, v, posted[v][k]) EXCEPT
                      ![v].last = posted[v][k]]
    /\ UNCHANGED <<pick, alt, opened, score, midiAccess, slideOf, current, inbox, st,
                   sent, posted, wire24, wire23, lastCall, began>>

\* the latest CC 23 of a page: none before the load has finished, the step
\* count that the end of loadAndRender sent in an active viewer with a port
LoadedWire23(s) ==
    IF s.pc = "ready" /\ s.isActiveViewer /\ s.midiOut # NoPort
    THEN Min2(127, Len(s.harmonicSteps)) ELSE NaN

\* the handler run of viewer v that leaves the record h
RunAs(v, h, again) ==
    /\ h.timers <= MaxTimers
    /\ st' = [st EXCEPT ![v] = [h EXCEPT !.out = <<>>, !.posted = <<>>]]
    /\ sent' = [w \in Viewers |-> IF w = v THEN h.out ELSE <<>>]
    /\ posted' = [w \in Viewers |-> IF w = v THEN h.posted ELSE <<>>]
    /\ began' = [w \in Viewers |-> w = v /\ again]
    /\ wire24' = [wire24 EXCEPT ![v] =
            LET ks == {k \in 1..Len(h.out) : h.out[k][1] = 176 /\ h.out[k][2] = 24}
            IN  IF ks = {} THEN @
                ELSE h.out[CHOOSE k \in ks : \A j \in ks : j <= k][3]]
    /\ wire23' = [wire23 EXCEPT ![v] =
            LET ks == {k \in 1..Len(h.out) : h.out[k][1] = 176 /\ h.out[k][2] = 23}
            IN  IF ks = {} THEN @
                ELSE h.out[CHOOSE k \in ks : \A j \in ks : j <= k][3]]

Run(v, h) == RunAs(v, h, FALSE)

\* a Reveal event handled by the bridge: one message to every harmony iframe
Navigate(type, slide) ==
    /\ getHarmonyIframes # {}
    /\ \A f \in getHarmonyIframes : Len(inbox[f]) < MaxQueue
    /\ current' = slide
    /\ inbox' = [f \in Viewers |->
            IF f \in getHarmonyIframes
            THEN Append(inbox[f],
                        activateCurrentIframe(f, slide, RevealEvent(type, slide)))
            ELSE inbox[f]]
    /\ UNCHANGED <<pick, alt, score, frames, opened, midiAccess, slideOf, st, sent, posted,
                   wire24, wire23, lastCall, began>>

Ready(slide) ==
    /\ current = NoSlide
    /\ Navigate("ready", slide)

SlideChanged(slide) ==
    /\ current # NoSlide
    /\ slide # current
    /\ Navigate("slidechanged", slide)

Fragment(type) ==
    /\ current # NoSlide
    /\ Navigate(type, current)

\* the host page asks an embedded viewer to resend its step count
HostRequestStepCount(v) ==
    /\ v \in getHarmonyIframes
    /\ Len(inbox[v]) < MaxQueue
    /\ inbox' = [inbox EXCEPT ![v] =
            Append(@, [type |-> "harmony-request-step-count", slideIndex |-> NaN])]
    /\ UNCHANGED <<pick, alt, score, frames, opened, midiAccess, slideOf, current, st, sent, posted,
                   wire24, wire23, lastCall, began>>

\* the messages another window posts to a standalone viewer page
ForeignMessages ==
    {[type |-> "harmony-activate", slideIndex |-> i] : i \in {NaN, 1, 200}}
    \cup {[type |-> "harmony-deactivate", slideIndex |-> NaN],
          [type |-> "harmony-request-step-count", slideIndex |-> NaN],
          [type |-> "reveal-slide-visible", slideIndex |-> 1],
          NotAnObject}

ForeignPost(v, msg) ==
    /\ v \in opened \ Embedded
    /\ Len(inbox[v]) < MaxQueue
    /\ inbox' = [inbox EXCEPT ![v] = Append(@, msg)]
    /\ UNCHANGED <<pick, alt, score, frames, opened, midiAccess, slideOf, current, st, sent, posted,
                   wire24, wire23, lastCall, began>>

\* the viewer's message listener handles the oldest message posted to it
Deliver(v) ==
    /\ v \in opened
    /\ inbox[v] # <<>>
    /\ LET msg == Head(inbox[v])
       IN  /\ RunAs(v, onMessage(v, st[v], msg),
                     msg.type = "harmony-activate" /\ st[v].isActiveViewer)
           /\ lastCall' = [lastCall EXCEPT ![v] =
                  IF msg.type \in {"harmony-activate", "harmony-deactivate"}
                  THEN [op |-> msg.type,
                        arg |-> IF msg.type = "harmony-activate"
                                THEN msg.slideIndex ELSE NaN,
                        bound |-> st[v].midiOut # NoPort]
                  ELSE @]
    /\ inbox' = [inbox EXCEPT ![v] = Tail(@)]
    /\ UNCHANGED <<pick, alt, score, frames, opened, midiAccess, slideOf, current>>

\* the MIDI messages the controller sends to the input port
MidiData ==
    {<<176, 22, k>> : k \in 0..(NumChords + 1)} \cup {<<176, 7, 1>>, <<144, 60, 100>>}

MidiIn(v, data) ==
    /\ v \in opened
    /\ st[v].midiIn # NoPort
    /\ Run(v, handleMidiMessage(v, st[v], data))
    /\ UNCHANGED <<pick, alt, score, frames, opened, midiAccess, slideOf, current, inbox, lastCall>>

DebugClick(v) ==
    /\ v \in opened
    /\ Run(v, wireDebug(v, st[v]))
    /\ UNCHANGED <<pick, alt, score, frames, opened, midiAccess, slideOf, current, inbox, lastCall>>

\* a note-length timeout fires
TimerFire(v) ==
    /\ v \in opened
    /\ st[v].timers > 0
    /\ Run(v, sendAllNotesOff([st[v] EXCEPT !.timers = @ - 1]))
    /\ UNCHANGED <<pick, alt, score, frames, opened, midiAccess, slideOf, current, inbox, lastCall>>

\* the window is resized, the container gets the width w; the resize
\* listener: refit, report the height
Resize(v, w) ==
    /\ v \in opened
    /\ Run(v, notifyParentOfHeight(v,
                  applySvgFitToContainer([st[v] EXCEPT !.containerW = w])))
    /\ UNCHANGED <<pick, alt, score, frames, opened, midiAccess, slideOf, current, inbox, lastCall>>

InitMidiResolved(v) ==
    /\ v \in opened
    /\ st[v].pc = "initMidi"
    /\ Run(v, initMidi(st[v]))
    /\ UNCHANGED <<pick, alt, score, frames, opened, midiAccess, slideOf, current, inbox, lastCall>>

\* requestMIDIAccess rejects: the start-up stops in its catch
InitMidiRejected(v) ==
    /\ v \in opened
    /\ st[v].pc = "initMidi"
    /\ Run(v, [st[v] EXCEPT !.pc = "failed"])
    /\ UNCHANGED <<pick, alt, score, frames, opened, midiAccess, slideOf, current, inbox, lastCall>>

FetchResolved(v, ok) ==
    /\ v \in opened
    /\ st[v].pc = "fetch"
    /\ Run(v, IF ok THEN loadAndRender(st[v]) ELSE [st[v] EXCEPT !.pc = "failed"])
    /\ UNCHANGED <<pick, alt, score, frames, opened, midiAccess, slideOf, current, inbox, lastCall>>

AnimationFrame(v) ==
    /\ v \in opened
    /\ st[v].pc = "raf"
    /\ Run(v, loadAndRenderFrame(st[v]))
    /\ UNCHANGED <<pick, alt, score, frames, opened, midiAccess, slideOf, current, inbox, lastCall>>

\* loadAnalysisIfPresent resolves with the JSON (present) or with null
AnalysisResolved(v, present) ==
    /\ v \in opened
    /\ st[v].pc = "analysis"
    /\ Run(v, loadAndRenderRest(v, [st[v] EXCEPT !.analysis = present]))
    /\ UNCHANGED <<pick, alt, score, frames, opened, midiAccess, slideOf, current, inbox, lastCall>>

(***************************************************************************)
(* The viewer of the alternative protocol (src/js/viewer.js, the variant   *)
(* with the HTML overlay): a page that a host shows by posting             *)
(* reveal-slide-visible.  Its state is the record alt: pc is the position  *)
(* of the load chain (fetch, analysis, midi: requestMIDIAccess is pending, *)
(* done, failed), hl the ids of the highlighted noteheads, overlay the     *)
(* step of the shown overlay (0: hidden), fitted: the transform of         *)
(* fitScoreToViewerWidth is applied, raf the callbacks waiting for an      *)
(* animation frame, event the event whose handler ran last, out and posted *)
(* what that handler sent to the output port and posted to the parent.     *)
(***************************************************************************)
MaxFrames == 2      \* callbacks waiting for an animation frame

NoEvent == [type |-> "none", slideIndex |-> NaN]

InitialAlt ==
    [pc |-> "fetch", steps |-> <<>>, currentStep |-> 0,
     analysisData |-> FALSE, midiIn |-> FALSE, midiOut |-> FALSE,
     stepsReady |-> FALSE, midiReady |-> FALSE, globalBaselineY |-> NaN,
     svg |-> FALSE, fitted |-> FALSE, hl |-> {}, overlay |-> 0,
     overlayTop |-> 0, raf |-> <<>>, event |-> NoEvent,
     out |-> <<>>, posted |-> <<>>]

\* the steps are the chord groupings and the notes outside a chord, in
\* document order, each with the notehead use elements it holds; a grouping
\* without one is no step
extractStepsChordSafe(notes) ==
    LET starts == SortedSeq({k \in 1..Len(notes) : ~notes[k].joined})
        last(n) == IF n = Len(starts) THEN Len(notes) ELSE starts[n + 1] - 1
        uses(n) == SelectSeq([k \in 1..(last(n) - starts[n] + 1) |->
                                  notes[starts[n] + k - 1]],
                             LAMBDA g : g.use)
        ids(n) == [k \in 1..Len(uses(n)) |-> uses(n)[k].id]
        RECURSIVE Push(_)
        Push(n) == IF n = 0 THEN <<>>
                   ELSE IF Len(ids(n)) > 0 THEN Append(Push(n - 1), ids(n))
                   ELSE Push(n - 1)
    IN  Push(Len(starts))

\* bbox.maxY - viewerRect.top of a step's noteheads: the unfitted score is
\* drawn at twice the size of the fitted one
StepBottom(a, index) == IF a.fitted THEN 40 ELSE 80

hideOverlayAlt(a) == [a EXCEPT !.overlay = 0]

updateOverlayForStep(a, index) ==
    IF ~a.analysisData \/ index > Len(a.steps) THEN hideOverlayAlt(a)
    ELSE LET b == IF a.globalBaselineY = NaN
                  THEN [a EXCEPT !.globalBaselineY = StepBottom(a, index) + 10]
                  ELSE a
         IN  [b EXCEPT !.overlay = index, !.overlayTop = b.globalBaselineY]

repositionOverlayForCurrentStep(a) ==
    IF a.currentStep > 0 THEN updateOverlayForStep(a, a.currentStep) ELSE a

highlightStepAlt(a, index) ==
    IF index <= 0 \/ index > Len(a.steps)
    THEN hideOverlayAlt([a EXCEPT !.hl = {}, !.currentStep = 0])
    ELSE updateOverlayForStep(
             [a EXCEPT !.hl = {a.steps[index][k] : k \in 1..Len(a.steps[index])},
                       !.currentStep = index],
             index)

fitScoreToViewerWidth(a) == IF ~a.svg THEN a ELSE [a EXCEPT !.fitted = TRUE]

\* Math.ceil(bbox.y + bbox.height) + 60 of the SVG's own bounding box,
\* which the transform does not change
notifyParentOfHeightAlt(a) ==
    IF ~a.svg THEN a
    ELSE [a EXCEPT !.posted = Append(@, [type |-> "harmony-resize", height |-> 540])]

sendStepCount(a) ==
    IF ~a.midiOut THEN a
    ELSE [a EXCEPT !.out = Append(@, <<176, 23, Min2(127, Len(a.steps))>>)]

maybeSendStepCount(a) ==
    IF ~a.stepsReady \/ ~a.midiReady THEN a ELSE sendStepCount(a)

\* a slide index sent as it came
sendSlideIndex_AsReceived(a, index) ==
    IF ~a.midiOut THEN a
    ELSE [a EXCEPT !.out = Append(@, <<176, 24, index>>)]

sendSlideIndex(a, index) ==
    IF ~a.midiOut THEN a
    ELSE [a EXCEPT !.out = Append(@, <<176, 24, Max2(0, Min2(127, index))>>)]

\* requestAnimationFrame(callback)
requestAnimationFrame(a, callback) == [a EXCEPT !.raf = Append(@, callback)]

\* the message listener of the window
onRevealMessage(a, d) ==
    IF ~IsObject(d) \/ d.type # "reveal-slide-visible" THEN a
    ELSE LET a1 == IF d.slideIndex # NaN THEN sendSlideIndex(a, d.slideIndex)
                   ELSE a
             a2 == highlightStepAlt(maybeSendStepCount(a1), 0)
         IN  requestAnimationFrame([a2 EXCEPT !.globalBaselineY = NaN], "reveal")

\* the callback of an animation frame
onAnimationFrame(a, callback) ==
    IF callback = "reveal"
    THEN notifyParentOfHeightAlt(fitScoreToViewerWidth(a))
    ELSE repositionOverlayForCurrentStep(notifyParentOfHeightAlt(a))

\* the listener of the window's resize event
onWindowResize(a) ==
    notifyParentOfHeightAlt(
        repositionOverlayForCurrentStep(
            fitScoreToViewerWidth([a EXCEPT !.globalBaselineY = NaN])))

\* the handler of the input port: a control change of CC_SELECT selects
handleMIDIIn(a, data) ==
    IF data[1] \div 16 # 11 THEN a
    ELSE IF data[2] = 22 THEN highlightStepAlt(a, data[3])
    ELSE a

\* then(access => ...) of initMIDI: every port whose name includes the
\* configured name is bound, the count is sent once per bound output and
\* once more at the end
initMIDI(a, access) ==
    LET a1 == [a EXCEPT !.midiIn = Len(access.inputs) > 0]
        a2 == IF Len(access.outputs) > 0
              THEN maybeSendStepCount([a1 EXCEPT !.midiOut = TRUE,
                                                 !.midiReady = TRUE])
              ELSE a1
    IN  [maybeSendStepCount(a2) EXCEPT !.pc = "done"]

\* the messages a host posts to the page
AltMessages ==
    {[type |-> "reveal-slide-visible", slideIndex |-> i] :
         i \in {NaN, 0 - 1, 1, 200}}
    \cup {[type |-> "harmony-activate", slideIndex |-> 1], NotAnObject}

\* the handler run of the page that leaves the record h, for event e
AltRun(h, e) ==
    /\ Len(h.raf) <= MaxFrames
    /\ alt' = [h EXCEPT !.event = e]
    /\ UNCHANGED <<pick, opened, score, midiAccess, slideOf, current, inbox, st, sent,
                   posted, wire24, wire23, frames, began, lastCall>>

Begin(a) == [a EXCEPT !.out = <<>>, !.posted = <<>>]

\* fetch(SCORE_URL) settled: render, extract the steps, fetch the analysis
AltFetchResolved(ok) ==
    /\ alt.pc = "fetch"
    /\ AltRun(IF ok
              THEN [Begin(alt) EXCEPT !.svg = TRUE,
                                      !.steps = extractStepsChordSafe(score),
                                      !.pc = "analysis"]
              ELSE [Begin(alt) EXCEPT !.pc = "failed"],
              [type |-> "fetch", slideIndex |-> NaN])

\* loadAnalysis() settled: the rest of the load chain
AltAnalysisResolved(present) ==
    /\ alt.pc = "analysis"
    /\ AltRun(requestAnimationFrame(
                  highlightStepAlt([Begin(alt) EXCEPT !.analysisData = present,
                                                      !.stepsReady = TRUE,
                                                      !.pc = "midi"], 0),
                  "load"),
              [type |-> "analysis", slideIndex |-> NaN])

AltMidiResolved ==
    /\ alt.pc = "midi"
    /\ AltRun(initMIDI(Begin(alt), midiAccess),
              [type |-> "midi", slideIndex |-> NaN])

AltAnimationFrame ==
    /\ alt.raf # <<>>
    /\ AltRun(onAnimationFrame([Begin(alt) EXCEPT !.raf = Tail(@)], Head(alt.raf)),
              [type |-> "frame", slideIndex |-> NaN])

AltMessage(d) ==
    /\ d \in AltMessages
    /\ AltRun(onRevealMessage(Begin(alt), d), d)

AltMidiIn(data) ==
    /\ alt.midiIn
    /\ AltRun(handleMIDIIn(Begin(alt), data),
              [type |-> "midi-in", slideIndex |-> NaN])

AltWindowResize ==
    /\ Len(alt.raf) <= MaxFrames
    /\ AltRun(onWindowResize(Begin(alt)), [type |-> "resize", slideIndex |-> NaN])

(***************************************************************************)
(* Specification                                                           *)
(***************************************************************************)
\* the decks with one harmony iframe: A in any slide
LayoutsOne == {[f \in Embedded |-> IF f = "A" THEN s ELSE NoSlide] : s \in Slides}

\* the decks with two: A in the first slide, B in any slide
LayoutsTwo == {[f \in Embedded |-> IF f = "A" THEN <<0, 0>> ELSE s] : s \in Slides}

AllPorts == [inputs |-> <<"IAC Max->Browser">>, outputs |-> <<"IAC Browser->Max">>]
NoOutput == [inputs |-> <<"IAC Max->Browser">>, outputs |-> <<>>]

NoCall == [op |-> "none", arg |-> NaN, bound |-> FALSE]

\* no height report handled yet
NoReport == [type |-> "none", height |-> NaN]

\* the iframes as the deck's page lays them out: the default height of an
\* iframe, a section of automatic height (0), no layout call
InitialFrames ==
    [f \in Embedded |-> [iframe |-> 150, section |-> 0, layout |-> FALSE,
                         last |-> NoReport]]

Init ==
    /\ score = SvgNotes
    /\ opened \in {{"A"}, Standalone}
    /\ midiAccess \in {AllPorts, NoOutput}
    /\ slideOf \in IF opened = {"A"} THEN LayoutsOne
                    ELSE {[f \in Embedded |-> NoSlide]}
    /\ current = NoSlide
    /\ inbox = [v \in Viewers |-> <<>>]
    /\ st = [v \in Viewers |-> InitialViewer(v)]
    /\ sent = [v \in Viewers |-> <<>>]
    /\ posted = [v \in Viewers |-> <<>>]
    /\ wire24 = [v \in Viewers |-> NaN]
    /\ wire23 = [v \in Viewers |-> LoadedWire23(st[v])]
    /\ lastCall = [v \in Viewers |-> NoCall]
    /\ began = [v \in Viewers |-> FALSE]
    /\ frames = InitialFrames
    /\ alt = InitialAlt
    /\ pick = NoPick

Next ==
    \/ \E slide \in Slides : Ready(slide)
    \/ \E slide \in Slides : SlideChanged(slide)
    \/ \E type \in {"fragmentshown", "fragmenthidden"} : Fragment(type)
    \/ \E v \in Viewers : HostRequestStepCount(v)
    \/ \E v \in Viewers, msg \in ForeignMessages : ForeignPost(v, msg)
    \/ \E v \in Viewers : Deliver(v)
    \/ \E v \in Viewers, data \in MidiData : MidiIn(v, data)
    \/ \E v \in Viewers : DebugClick(v)
    \/ \E v \in Viewers : TimerFire(v)
    \/ \E v \in Viewers : Resize(v, st[v].containerW)
    \/ \E v \in Viewers : InitMidiResolved(v)
    \/ \E v \in Viewers : InitMidiRejected(v)
    \/ \E v \in Viewers, ok \in BOOLEAN : FetchResolved(v, ok)
    \/ \E v \in Viewers : AnimationFrame(v)
    \/ \E v \in Viewers, present \in BOOLEAN : AnalysisResolved(v, present)

Spec == Init /\ [][Next]_vars


(***************************************************************************)
(* The deck with two viewers: both iframes have finished loading when      *)
(* Reveal becomes ready, then the audience navigates and the controller    *)
(* plays.                                                                  *)
(***************************************************************************)
LoadedViewer(v) ==
    LET f == loadAndRenderFrame(loadAndRender(initMidi(InitialViewer(v))))
        h == loadAndRenderRest(v, [f EXCEPT !.analysis = TRUE])
    IN  [h EXCEPT !.out = <<>>, !.posted = <<>>]

InitDeck ==
    /\ score = SvgNotes
    /\ opened = Embedded
    /\ midiAccess \in {AllPorts, NoOutput}
    /\ slideOf \in LayoutsTwo
    /\ current = NoSlide
    /\ inbox = [v \in Viewers |-> <<>>]
    /\ st = [v \in Viewers |-> IF v \in Embedded THEN LoadedViewer(v)
                                ELSE InitialViewer(v)]
    /\ sent = [v \in Viewers |-> <<>>]
    /\ posted = [v \in Viewers |-> <<>>]
    /\ wire24 = [v \in Viewers |-> NaN]
    /\ wire23 = [v \in Viewers |-> LoadedWire23(st[v])]
    /\ lastCall = [v \in Viewers |-> NoCall]
    /\ began = [v \in Viewers |-> FALSE]
    /\ frames = InitialFrames
    /\ alt = InitialAlt
    /\ pick = NoPick

NextDeck ==
    \/ \E slide \in Slides : Ready(slide)
    \/ \E slide \in Slides : SlideChanged(slide)
    \/ \E type \in {"fragmentshown", "fragmenthidden"} : Fragment(type)
    \/ \E v \in Embedded : Deliver(v)
    \/ \E v \in Embedded, data \in MidiData : MidiIn(v, data)
    \/ \E v \in Embedded : TimerFire(v)

SpecDeck == InitDeck /\ [][NextDeck]_vars

(***************************************************************************)
(* One loaded viewer page that is played: steps are selected by the        *)
(* controller and the debug button, the page is activated and deactivated, *)
(* note-length timeouts fire.  The browser runs every timeout that is      *)
(* pending, so a timeout that was set fires.                               *)
(***************************************************************************)
InitNotes ==
    /\ score = SvgNotes
    /\ opened \in {{"A"}, Standalone}
    /\ midiAccess \in {AllPorts, NoOutput}
    /\ slideOf \in IF opened = {"A"} THEN LayoutsOne
                    ELSE {[f \in Embedded |-> NoSlide]}
    /\ current = NoSlide
    /\ inbox = [v \in Viewers |-> <<>>]
    /\ st = [v \in Viewers |-> IF v \in opened THEN LoadedViewer(v)
                                ELSE InitialViewer(v)]
    /\ sent = [v \in Viewers |-> <<>>]
    /\ posted = [v \in Viewers |-> <<>>]
    /\ wire24 = [v \in Viewers |-> NaN]
    /\ wire23 = [v \in Viewers |-> LoadedWire23(st[v])]
    /\ lastCall = [v \in Viewers |-> NoCall]
    /\ began = [v \in Viewers |-> FALSE]
    /\ frames = InitialFrames
    /\ alt = InitialAlt
    /\ pick = NoPick

NextNotes ==
    \/ \E slide \in Slides : Ready(slide)
    \/ \E slide \in Slides : SlideChanged(slide)
    \/ \E v \in Viewers, msg \in ForeignMessages : ForeignPost(v, msg)
    \/ \E v \in Viewers : Deliver(v)
    \/ \E v \in Viewers, data \in MidiData : MidiIn(v, data)
    \/ \E v \in Viewers : DebugClick(v)
    \/ \E v \in Viewers : TimerFire(v)

SpecNotes ==
    InitNotes /\ [][NextNotes]_vars /\ \A v \in Viewers : WF_vars(TimerFire(v))

(***************************************************************************)
(* One loaded viewer page in a deck that reports its height: on            *)
(* activation, on a step selection, on a window resize; the bridge's       *)
(* listener handles the reports.                                           *)
(***************************************************************************)
NextResize ==
    \/ \E slide \in Slides : Ready(slide)
    \/ \E slide \in Slides : SlideChanged(slide)
    \/ \E v \in Viewers : Deliver(v)
    \/ \E v \in Viewers : DebugClick(v)
    \/ \E v \in Viewers, w \in ContainerWidths : Resize(v, w)
    \/ \E v \in Viewers, k \in 1..2 : BridgeRelay(v, k)

SpecResize == InitNotes /\ [][NextResize]_vars

(***************************************************************************)
(* highlightStep called directly, with any argument, on a viewer in any of *)
(* the states a page can be in: score not yet loaded or loaded, active or  *)
(* not, output port bound or not, any step highlighted.                    *)
(***************************************************************************)
CallArgs == {NaN} \cup ((0 - 2)..(NumChords + 2))

CallStates(v) ==
    LET unloaded == [initMidi(InitialViewer(v)) EXCEPT !.out = <<>>]
        frame == loadAndRenderFrame(loadAndRender(unloaded))
        loaded == [frame EXCEPT
                      !.pc = "ready", !.analysis = TRUE,
                      !.baselineY = computeGlobalAnalysisBaselineY(frame)]
        steps == {<<unloaded, 0>>} \cup {<<loaded, k>> : k \in 0..NumChords}
    IN  {[updateAnalysisOverlay(
              applySvgHighlight([p[1] EXCEPT !.highlightedStep = p[2]], p[2]),
              p[2]) EXCEPT !.isActiveViewer = a] : p \in steps, a \in BOOLEAN}

CallHighlightStep(v, n) ==
    /\ v \in opened
    /\ Run(v, highlightStep(v, st[v], n))
    /\ lastCall' = [lastCall EXCEPT ![v] =
           [op |-> "highlightStep", arg |-> n, bound |-> st[v].midiOut # NoPort]]
    /\ UNCHANGED <<pick, alt, score, frames, opened, midiAccess, slideOf, current, inbox>>

InitCalls ==
    /\ score = SvgNotes
    /\ opened \in {{"A"}, {"S"}}
    /\ midiAccess \in {AllPorts, NoOutput}
    /\ slideOf = [f \in Embedded |-> NoSlide]
    /\ current = NoSlide
    /\ inbox = [v \in Viewers |-> <<>>]
    /\ \E v \in opened : \E s \in CallStates(v) :
           st = [w \in Viewers |-> IF w = v THEN s ELSE InitialViewer(w)]
    /\ sent = [v \in Viewers |-> <<>>]
    /\ posted = [v \in Viewers |-> <<>>]
    /\ wire24 = [v \in Viewers |-> NaN]
    /\ wire23 = [v \in Viewers |-> LoadedWire23(st[v])]
    /\ lastCall = [v \in Viewers |-> NoCall]
    /\ began = [v \in Viewers |-> FALSE]
    /\ frames = InitialFrames
    /\ alt = InitialAlt
    /\ pick = NoPick

NextCalls ==
    \/ \E v \in Viewers, n \in CallArgs : CallHighlightStep(v, n)
    \/ \E v \in Viewers : TimerFire(v)

SpecCalls == InitCalls /\ [][NextCalls]_vars

(***************************************************************************)
(* Vocabulary of the properties                                            *)
(***************************************************************************)
AllNotesOff == <<176, 123, 0>>

HasNoteOn(out) == \E k \in 1..Len(out) : StatusType(out[k][1]) = 144

HasCC(out, cc) == \E k \in 1..Len(out) : out[k][1] = 176 /\ out[k][2] = cc

Bound(s) == s.midiOut # NoPort

\* every message of the last navigation round has been handled
Quiescent == \A v \in Viewers : inbox[v] = <<>>

ActiveViewers == {v \in opened : st[v].isActiveViewer}

\* this step is viewer v handling the message at the head of its inbox
Handles(v) == inbox[v] # <<>> /\ inbox' = [inbox EXCEPT ![v] = Tail(@)]

\* this step is the bridge handling a Reveal event
Navigates == \E f \in Viewers : Len(inbox'[f]) > Len(inbox[f])

(***************************************************************************)
(* A standalone viewer page that loads any score of at most MaxNotes note  *)
(* groups: each note group at one of three x positions (0 and 1 fall into  *)
(* one x bucket, 300 into another), alone or in the chord grouping of the  *)
(* note group before it, with a pitch the toolkit resolves (C4, B3, B9) or *)
(* does not resolve (no such pitch name, no octave), with or without a     *)
(* notehead use element, with or without a readable translate.  The page   *)
(* is started, resized and stepped through with the debug button.          *)
(***************************************************************************)
MaxNotes == 2

NoteShapes ==
    {[x |-> x, pname |-> "c", oct |-> 4, joined |-> j, use |-> TRUE] :
        x \in {0, 1, 300}, j \in BOOLEAN}
    \cup {[x |-> 0, pname |-> p[1], oct |-> p[2], joined |-> FALSE,
           use |-> TRUE] :
             p \in {<<"b", 3>>, <<"b", 9>>, <<"h", 4>>, <<"c", NaN>>}}
    \cup {[x |-> 0, pname |-> "c", oct |-> 4, joined |-> FALSE, use |-> FALSE],
          [x |-> NaN, pname |-> "c", oct |-> 4, joined |-> FALSE, use |-> TRUE]}

Scores ==
    UNION {{[k \in 1..n |-> [id |-> k, x |-> f[k].x, pname |-> f[k].pname,
                             oct |-> f[k].oct, joined |-> f[k].joined,
                             use |-> f[k].use]] :
               f \in {g \in [1..n -> NoteShapes] : n > 0 => ~g[1].joined}} :
           n \in 0..MaxNotes}

InitScore ==
    /\ score \in Scores
    /\ opened = {"S"}
    /\ midiAccess = AllPorts
    /\ slideOf = [f \in Embedded |-> NoSlide]
    /\ current = NoSlide
    /\ inbox = [v \in Viewers |-> <<>>]
    /\ st = [v \in Viewers |-> InitialViewer(v)]
    /\ sent = [v \in Viewers |-> <<>>]
    /\ posted = [v \in Viewers |-> <<>>]
    /\ wire24 = [v \in Viewers |-> NaN]
    /\ wire23 = [v \in Viewers |-> LoadedWire23(st[v])]
    /\ lastCall = [v \in Viewers |-> NoCall]
    /\ began = [v \in Viewers |-> FALSE]
    /\ frames = InitialFrames
    /\ alt = InitialAlt
    /\ pick = NoPick

NextScore ==
    \/ \E v \in Viewers : InitMidiResolved(v)
    \/ \E v \in Viewers, ok \in BOOLEAN : FetchResolved(v, ok)
    \/ \E v \in Viewers : AnimationFrame(v)
    \/ \E v \in Viewers, present \in BOOLEAN : AnalysisResolved(v, present)
    \/ \E v \in Viewers, w \in ContainerWidths : Resize(v, w)
    \/ \E v \in Viewers : DebugClick(v)
    \/ \E v \in Viewers : TimerFire(v)

SpecScore == InitScore /\ [][NextScore]_vars

(***************************************************************************)
(* C1  Activation exclusivity: whenever every activate / deactivate        *)
(* message the bridge has posted to the embedded viewers of the deck has   *)
(* been handled, at most one of the viewers has isActiveViewer = true.     *)
(* (Fails: the bridge activates every iframe of the current slide and the  *)
(* viewer's handler sets the flag unconditionally, so two viewers in one   *)
(* slide are both active.)                                                 *)
(***************************************************************************)
C1_AtMostOneActive == Quiescent => Cardinality(ActiveViewers) <= 1

(***************************************************************************)
(* C2  Note-output gating: highlightStep(k) with k > 0 on a viewer that is *)
(* not active sends no Note-On and makes the all-notes-off emission        *)
(* instead: exactly CC 123 goes on the wire (nothing at all when no output *)
(* port is bound, where every emission is a silent no-op).  And whichever  *)
(* handler ran last (CC 22 input, debug button, message, load), a viewer   *)
(* that is not active afterwards has put no Note-On on the wire in it.     *)
(***************************************************************************)
C2_NoteOutputGating ==
    \A v \in opened :
        ~st[v].isActiveViewer =>
            /\ ~HasNoteOn(sent[v])
            /\ \A k \in 1..(NumChords + 1) :
                   LET h == highlightStep(v, st[v], k)
                   IN  /\ ~HasNoteOn(h.out)
                       /\ h.out = IF Bound(st[v]) THEN <<AllNotesOff>> ELSE <<>>
                       /\ h.timers = st[v].timers

\* an embedded viewer that is not active has just run highlightStep from the
\* debug button: a step > 0 is highlighted, the height is posted, and CC 123
\* alone went on the wire
C2_Witness ==
    \E v \in opened \cap Embedded :
        /\ ~st[v].isActiveViewer
        /\ st[v].highlightedStep > 0
        /\ st[v].hv # {}
        /\ sent[v] = <<AllNotesOff>>
        /\ Len(posted[v]) = 1

(***************************************************************************)
(* C3  On every navigation event the Deck Bridge posts one message to each *)
(* harmony iframe of the deck: harmony-activate to exactly the iframes in  *)
(* the slide that is current after the event, harmony-deactivate to every  *)
(* other one; when the current slide holds no viewer all get               *)
(* harmony-deactivate.                                                     *)
(***************************************************************************)
C3_NavigationMessages ==
    [][Navigates =>
          \A f \in Embedded :
              /\ Len(inbox'[f]) = Len(inbox[f]) + 1
              /\ SubSeq(inbox'[f], 1, Len(inbox[f])) = inbox[f]
              /\ inbox'[f][Len(inbox'[f])].type =
                     IF slideOf[f] = current' THEN "harmony-activate"
                     ELSE "harmony-deactivate"]_vars

\* a round in flight: the viewer of the current slide has been sent
\* harmony-activate, the other one harmony-deactivate
C3_Witness ==
    \E f \in Embedded, g \in Embedded :
        /\ slideOf[f] = current
        /\ slideOf[g] # current
        /\ inbox[f] # <<>> /\ inbox[f][Len(inbox[f])].type = "harmony-activate"
        /\ inbox[g] # <<>> /\ inbox[g][Len(inbox[g])].type = "harmony-deactivate"

(***************************************************************************)
(* C4  Navigation convergence: A and B sit in different slides, the deck   *)
(* shows B's slide and every message of the navigation has been handled.   *)
(* Then A is not active and sends no further Note-On (not in its latest    *)
(* handler, not for any controller message, not when a timeout fires), B   *)
(* is active, and the CC 24 B put on the wire carries the slide index of   *)
(* its harmony-activate clamped to 0..127 (nothing was sent when B had no  *)
(* output port).                                                           *)
(***************************************************************************)
Clamp7(x) == IF x = NaN \/ x < 0 THEN 0 ELSE IF x > 127 THEN 127 ELSE x

MovedToB ==
    /\ opened = Embedded
    /\ Quiescent
    /\ slideOf["A"] # slideOf["B"]
    /\ current = slideOf["B"]

SilentA ==
    /\ ~HasNoteOn(sent["A"])
    /\ \A data \in MidiData : ~HasNoteOn(handleMidiMessage("A", st["A"], data).out)
    /\ ~HasNoteOn(sendAllNotesOff(st["A"]).out)

C5_StepIndexClamping ==
    \A v \in opened :
        lastCall[v].op = "highlightStep" =>
            LET n == lastCall[v].arg
                stepCount == Len(st[v].harmonicSteps)
            IN  /\ st[v].highlightedStep \in 0..stepCount
                /\ st[v].highlightedStep =
                       IF n = NaN \/ n < 0 THEN 0
                       ELSE IF n > stepCount THEN stepCount
                       ELSE n

\* highlightStep was called with an index above the step count of a loaded
\* score and the current step is the last step
C5_Witness ==
    \E v \in opened :
        /\ lastCall[v].op = "highlightStep"
        /\ Len(st[v].harmonicSteps) > 0
        /\ lastCall[v].arg > Len(st[v].harmonicSteps)
        /\ st[v].highlightedStep = Len(st[v].harmonicSteps)

(***************************************************************************)
(* C6  Idempotent deactivate: a viewer whose latest activation message was *)
(* a harmony-deactivate handles another harmony-deactivate: the session    *)
(* state stays as it is and no second all-notes-off goes on the wire.      *)
(* (Fails: the handler sends CC 123 every time.)                           *)
(***************************************************************************)
SecondDeactivate(v) ==
    /\ Handles(v)
    /\ Head(inbox[v]).type = "harmony-deactivate"
    /\ lastCall[v].op = "harmony-deactivate"
    /\ ~st[v].isActiveViewer

C6_IdempotentDeactivate ==
    [][\A v \in Viewers :
          SecondDeactivate(v) => (st'[v] = st[v] /\ ~HasCC(sent'[v], 123))]_vars

(***************************************************************************)
(* C7  Handling harmony-activate(slideIndex), from the active and from the *)
(* inactive state: isActiveViewer becomes true; currentSlideIndex becomes  *)
(* the slide index clamped to 0..127 (0 when the message has none); the    *)
(* current step stays and its highlight is re-applied; with an output port *)
(* bound the wire gets CC 23 = step count, CC 24 = the stored index, then  *)
(* the Note-Ons of the current step when it is > 0 (CC 123 when it is 0),  *)
(* and nothing without a port; an embedded viewer posts its height to the  *)
(* parent, a standalone viewer posts nothing.                              *)
(***************************************************************************)
HandlesActivate(v) == Handles(v) /\ Head(inbox[v]).type = "harmony-activate"

NoteOns(pitches) == [k \in 1..Len(pitches) |-> <<144, pitches[k], 100>>]

StepIds(s) ==
    IF s.highlightedStep = 0 THEN {}
    ELSE {s.harmonicSteps[s.highlightedStep][k] :
             k \in 1..Len(s.harmonicSteps[s.highlightedStep])}

ActivateEffect(v, index) ==
    /\ st'[v].isActiveViewer
    /\ st'[v].currentSlideIndex = index
    /\ st'[v].highlightedStep = st[v].highlightedStep
    /\ st'[v].harmonicSteps = st[v].harmonicSteps
    /\ st'[v].svg => st'[v].hv = StepIds(st[v])
    /\ sent'[v] =
          IF ~Bound(st[v]) THEN <<>>
          ELSE <<<<176, 23, Len(st[v].harmonicSteps)>>, <<176, 24, index>>>>
               \o (IF st[v].highlightedStep > 0
                   THEN NoteOns(st[v].stepPitches[st[v].highlightedStep])
                   ELSE <<AllNotesOff>>)
    /\ IF v \in Embedded
       THEN /\ posted'[v] # <<>>
            /\ \A k \in 1..Len(posted'[v]) : posted'[v][k].type = "viewer-height"
       ELSE posted'[v] = <<>>

C7_Activate ==
    [][\A v \in Viewers :
          HandlesActivate(v) =>
              ActivateEffect(v, Clamp7(Head(inbox[v]).slideIndex))]_vars

\* the claim as stated: the slide index a message carries is itself stored
\* and sent
C7_AsStated ==
    [][\A v \in Viewers :
          (HandlesActivate(v) /\ Head(inbox[v]).slideIndex # NaN) =>
              ActivateEffect(v, Head(inbox[v]).slideIndex)]_vars

\* a viewer with a chord selected and a port bound has just handled
\* harmony-activate: CC 23, CC 24 and the chord's Note-Ons are on the wire
C7_Witness ==
    \E v \in opened :
        /\ lastCall[v].op = "harmony-activate"
        /\ st[v].isActiveViewer
        /\ st[v].highlightedStep > 0
        /\ HasCC(sent[v], 23) /\ HasCC(sent[v], 24) /\ HasNoteOn(sent[v])
        /\ v \in Embedded => Len(posted[v]) = 2

(***************************************************************************)
(* C8  Handling harmony-deactivate in an embedded viewer sets              *)
(* isActiveViewer = false and makes the all-notes-off emission at once     *)
(* (exactly CC 123 on the wire with a port bound), also while a note       *)
(* burst's timeout is still pending, which stays pending; and as long as   *)
(* the latest activation message the viewer handled is a                   *)
(* harmony-deactivate, no handler of it puts a Note-On on the wire.        *)
(***************************************************************************)
HandlesDeactivate(v) == Handles(v) /\ Head(inbox[v]).type = "harmony-deactivate"

C8_Deactivate ==
    [][\A v \in Embedded :
          /\ HandlesDeactivate(v) =>
                 /\ ~st'[v].isActiveViewer
                 /\ sent'[v] = IF Bound(st[v]) THEN <<AllNotesOff>> ELSE <<>>
                 /\ st'[v].timers = st[v].timers
          /\ lastCall'[v].op = "harmony-deactivate" =>
                 (~st'[v].isActiveViewer /\ ~HasNoteOn(sent'[v]))]_vars

\* deactivation mid-note: the viewer has handled harmony-deactivate while
\* the timeout of its note burst was pending; CC 123 went out at once
C8_Witness ==
    \E v \in opened \cap Embedded :
        /\ lastCall[v].op = "harmony-deactivate"
        /\ ~st[v].isActiveViewer
        /\ st[v].timers > 0
        /\ st[v].highlightedStep > 0
        /\ sent[v] = <<AllNotesOff>>
        /\ posted[v] = <<>>

(***************************************************************************)
(* C9  A viewer that is not active never sends CC 23 or CC 24: whenever a  *)
(* handler has put CC 23 or CC 24 on the wire the viewer is active, no     *)
(* step-count request makes an inactive viewer send, and an embedded       *)
(* viewer that has not handled any activation message is inactive.         *)
(***************************************************************************)
C9_InactiveSendsNoCc ==
    \A v \in opened :
        /\ (HasCC(sent[v], 23) \/ HasCC(sent[v], 24)) => st[v].isActiveViewer
        /\ ~st[v].isActiveViewer =>
               LET h == onMessage(v, st[v], [type |-> "harmony-request-step-count",
                                             slideIndex |-> NaN])
               IN  h.out = <<>>
        /\ (v \in Embedded /\ lastCall[v].op = "none") =>
               (~st[v].isActiveViewer /\ wire24[v] = NaN)

\* an embedded viewer with a port bound has finished loading while it was
\* not active: the load's highlightStep(0) sent CC 123, its step count was
\* not sent
C9_Witness ==
    \E v \in opened \cap Embedded :
        /\ st[v].pc = "ready"
        /\ ~st[v].isActiveViewer
        /\ Bound(st[v])
        /\ Len(st[v].harmonicSteps) > 0
        /\ sent[v] = <<AllNotesOff>>
        /\ Len(posted[v]) = 2

(***************************************************************************)
(* C10  A standalone viewer has isActiveViewer = true in every reachable   *)
(* state.  (Fails: the harmony-deactivate handler clears the flag without  *)
(* looking at IS_EMBEDDED.)                                                *)
(***************************************************************************)
C10_StandaloneAlwaysActive ==
    \A v \in opened \ Embedded : st[v].isActiveViewer

(***************************************************************************)
(* C11: an embedded viewer that is inactive ignores an incoming CC 22      *)
(* entirely: whatever the value, the handler leaves the current step, the  *)
(* highlight, the overlay and every other field as they were and sends no  *)
(* MIDI.                                                                   *)
(***************************************************************************)
CC22Messages == {d \in MidiData : StatusType(d[1]) = 176 /\ d[2] % 128 = 22}

C11_InactiveIgnoresCC22 ==
    \A v \in opened \cap Embedded :
        ~st[v].isActiveViewer =>
            \A d \in CC22Messages :
                LET h == handleMidiMessage(v, st[v], d)
                IN  /\ h.highlightedStep = st[v].highlightedStep
                    /\ h.hv = st[v].hv
                    /\ h.overlay = st[v].overlay
                    /\ h.out = <<>>
                    /\ h = [st[v] EXCEPT !.out = <<>>, !.posted = <<>>]

\* an inactive embedded viewer with a bound port that shows step 1 with its
\* overlay: a CC 22 of value 0 would move it, were it handled
C11_Witness ==
    \E v \in opened \cap Embedded :
        /\ ~st[v].isActiveViewer
        /\ Bound(st[v])
        /\ st[v].highlightedStep = 1
        /\ st[v].overlay = 1
        /\ <<176, 22, 0>> \in CC22Messages

(***************************************************************************)
(* C12: highlightStep updates the current step, the highlight and the      *)
(* overlay whether the viewer is active or not, and an inactive viewer     *)
(* sends no Note-On for it.  A CC 22 reaches highlightStep in an active    *)
(* viewer and in a standalone one; an embedded viewer that is inactive     *)
(* drops it and keeps its highlighted step.                                *)
(***************************************************************************)
\* the overlay a viewer shows for a step: the step's entry when the page has
\* an analysis and a baseline, hidden otherwise
OverlayFor(s, k) == IF s.analysis /\ s.baselineY # NaN /\ k >= 1 THEN k ELSE 0

HighlightEffect(s, h, k) ==
    /\ h.highlightedStep = clampInt(k, 0, Len(s.harmonicSteps))
    /\ s.svg => h.hv = StepIds(h)
    /\ h.overlay = OverlayFor(s, h.highlightedStep)
    /\ ~s.isActiveViewer => ~HasNoteOn(h.out)

C12_HighlightAlways ==
    \A v \in opened :
        /\ \A k \in 0..(NumChords + 1) :
               HighlightEffect(st[v], highlightStep(v, st[v], k), k)
        /\ \A d \in CC22Messages :
               LET h == handleMidiMessage(v, st[v], d)
               IN  IF ~st[v].isActiveViewer /\ IS_EMBEDDED(v)
                   THEN h.highlightedStep = st[v].highlightedStep
                   ELSE HighlightEffect(st[v], h, d[3])

\* C12 as stated: a CC 22 received by an inactive viewer still changes its
\* highlighted step to the selected one
C12_AsStated ==
    \A v \in opened :
        ~st[v].isActiveViewer =>
            \A d \in CC22Messages :
                handleMidiMessage(v, st[v], d).highlightedStep
                    = clampInt(d[3], 0, Len(st[v].harmonicSteps))

\* an inactive embedded viewer has just run highlightStep(1): step, highlight
\* and overlay show step 1 and the wire got all-notes-off only
C12_Witness ==
    \E v \in opened \cap Embedded :
        /\ ~st[v].isActiveViewer
        /\ st[v].highlightedStep = 1
        /\ st[v].hv = StepIds(st[v]) /\ st[v].hv # {}
        /\ st[v].overlay = 1
        /\ sent[v] = <<AllNotesOff>>

(***************************************************************************)
(* C13: handling harmony-request-step-count changes nothing of the         *)
(* viewer's state (active flag, current step, slide index, steps,          *)
(* highlight, overlay, pending timeouts) and posts nothing; an active      *)
(* viewer with a port bound puts exactly one CC 23 carrying its step count *)
(* on the wire, an inactive one or one without a port sends nothing.       *)
(***************************************************************************)
HandlesRequest(v) ==
    Handles(v) /\ Head(inbox[v]).type = "harmony-request-step-count"

StepCountCc(s) == <<176, 23, clampInt(Len(s.harmonicSteps), 0, 127)>>

C13_RequestStepCount ==
    [][\A v \in Viewers :
          HandlesRequest(v) =>
              /\ st'[v] = st[v]
              /\ posted'[v] = <<>>
              /\ sent'[v] = IF st[v].isActiveViewer /\ Bound(st[v])
                            THEN <<StepCountCc(st[v])>> ELSE <<>>]_vars

\* an active viewer showing step 1 has answered a request: the wire holds
\* the step count alone and the step is still highlighted
C13_Witness ==
    \E v \in opened :
        /\ st[v].isActiveViewer
        /\ st[v].highlightedStep = 1
        /\ st[v].hv # {}
        /\ Len(st[v].harmonicSteps) = NumChords
        /\ sent[v] = <<StepCountCc(st[v])>>
        /\ posted[v] = <<>>

(***************************************************************************)
(* C14: every CC 23 and CC 24 value a viewer puts on the wire lies in      *)
(* 0..127: a viewer whose score has more than 127 steps sends its step     *)
(* count as 127, and an activation with a slide index below 0 or above 127 *)
(* sends CC 24 with 0 or 127.                                              *)
(***************************************************************************)
\* the values of the control changes cc in a handler's output
CcValues(out, cc) ==
    {out[k][3] : k \in {j \in 1..Len(out) : out[j][1] = 176 /\ out[j][2] = cc}}

\* a score of 130 chords, more than a data byte can count
LongScoreSteps == [k \in 1..130 |-> <<10 * k + 1>>]

\* slide indices a harmony-activate can carry
WideSlideIndices == {0 - 5, 0 - 1, 0, 1, 127, 128, 200, 12700}

C14_CcValuesClamped ==
    \A v \in opened :
        /\ CcValues(sent[v], 23) \cup CcValues(sent[v], 24) \subseteq 0..127
        /\ LET big == [st[v] EXCEPT !.harmonicSteps = LongScoreSteps,
                                    !.isActiveViewer = TRUE]
           IN  CcValues(sendStepCountCc(big).out, 23)
                   = IF Bound(st[v]) THEN {127} ELSE {}
        /\ \A i \in WideSlideIndices :
               LET h == onActivate(v, st[v],
                                   [type |-> "harmony-activate", slideIndex |-> i])
               IN  /\ CcValues(h.out, 24)
                       = IF ~Bound(st[v]) THEN {}
                         ELSE IF i < 0 THEN {0}
                         ELSE IF i > 127 THEN {127} ELSE {i}
                   /\ CcValues(h.out, 23) \subseteq 0..127

\* a viewer activated with slide index 200 has put its step count and the
\* slide index, as 127, on the wire
C14_Witness ==
    \E v \in opened :
        /\ lastCall[v].op = "harmony-activate" /\ lastCall[v].arg = 200
        /\ CcValues(sent[v], 24) = {127}
        /\ CcValues(sent[v], 23) = {NumChords}

(***************************************************************************)
(* C15: the slide index the bridge sends with harmony-activate, and the    *)
(* CC 24 value the activated viewer transmits, is the horizontal index of  *)
(* the visible slide, the slide that holds the viewer's iframe.            *)
(***************************************************************************)
C15_HorizontalSlideIndex ==
    \A v \in opened \cap Embedded :
        lastCall[v].op = "harmony-activate" =>
            /\ lastCall[v].arg = slideOf[v][1]
            /\ lastCall[v].bound => wire24[v] = slideOf[v][1]

(***************************************************************************)
(* C16: every Note-On a viewer sends is eventually followed by an          *)
(* all-notes-off from the same viewer: whenever a handler of a viewer has  *)
(* put a Note-On on the wire, a later handler of that viewer ends with     *)
(* CC 123, the burst's timeout at the latest, whatever steps are selected  *)
(* and whatever activations and deactivations are handled in between.      *)
(***************************************************************************)
EndsWithAllNotesOff(out) == out # <<>> /\ out[Len(out)] = AllNotesOff

C16_NoteOnEndsInNotesOff ==
    \A v \in Viewers :
        HasNoteOn(sent[v]) ~> EndsWithAllNotesOff(sent[v])

\* rapid step switching: an active viewer has sent a second burst while the
\* timeout of the first was still pending
C16_Witness ==
    \E v \in opened :
        /\ st[v].isActiveViewer
        /\ HasNoteOn(sent[v])
        /\ st[v].timers = 2

(***************************************************************************)
(* C17: highlightStep(k) with 1 <= k <= stepCount in an active viewer with *)
(* a port bound sends exactly one Note-On for each pitch of step k's       *)
(* resolved pitch set, in ascending order, and no other Note-On; the step  *)
(* D4-F4-A4 gives Note-On 62, 65, 69.                                      *)
(***************************************************************************)
NoteOnsOf(out) == SelectSeq(out, LAMBDA m : StatusType(m[1]) = 144)

\* a score whose only chord is D4-F4-A4, as the SVG shows it
DFANotes ==
    [j \in 1..3 |-> [id |-> 20 + j, x |-> 600, pname |-> ChordPnames(2)[j], oct |-> 4,
                     joined |-> j > 1, use |-> TRUE]]

\* the viewer s with that score loaded, active
WithDFAScore(s) ==
    LET steps == buildHarmonicStepsFromSvg(DFANotes)
    IN  [s EXCEPT !.svg = TRUE, !.harmonicSteps = steps,
                  !.stepPitches = computeStepPitches(DFANotes, steps),
                  !.isActiveViewer = TRUE]

WithoutPort(s) == [s EXCEPT !.midiOut = NoPort]
WithPort(s) == [s EXCEPT !.midiOut = AllPorts.outputs[1]]

\* what a viewer shows and holds, apart from MIDI
Visible(s) ==
    [highlightedStep |-> s.highlightedStep, hv |-> s.hv, overlay |-> s.overlay,
     isActiveViewer |-> s.isActiveViewer,
     currentSlideIndex |-> s.currentSlideIndex, posted |-> s.posted]

\* the handlers of the claim, applied to the viewer v in state s
PortHandlerRuns(v, s) ==
    {highlightStep(v, s, k) : k \in 0..(NumChords + 1)}
    \cup {onMessage(v, s, m) : m \in ForeignMessages}

SamePortHandlerRuns(v, s) ==
    /\ \A k \in 0..(NumChords + 1) :
           Visible(highlightStep(v, WithoutPort(s), k))
               = Visible(highlightStep(v, WithPort(s), k))
    /\ \A m \in ForeignMessages :
           Visible(onMessage(v, WithoutPort(s), m))
               = Visible(onMessage(v, WithPort(s), m))

C18_NoPortSilent ==
    \A v \in opened :
        LET u == WithoutPort(st[v])
        IN  /\ \A cc \in {23, 24, 123}, x \in {0, 1, 200} : sendCC(u, cc, x) = u
            /\ sendAllNotesOff(u) = u
            /\ \A k \in 0..(NumChords + 1) : sendStepNotesAsMidi(u, k) = u
            /\ \A h \in PortHandlerRuns(v, u) : h.out = <<>> /\ h.timers = u.timers
            /\ SamePortHandlerRuns(v, st[v])
            /\ ~Bound(st[v]) => sent[v] = <<>>

\* a viewer without an output port has handled harmony-activate while step 1
\* was selected: it is active, shows the step and its overlay, sent nothing
C18_Witness ==
    \E v \in opened :
        /\ ~Bound(st[v])
        /\ st[v].pc = "ready"
        /\ lastCall[v].op = "harmony-activate"
        /\ st[v].isActiveViewer
        /\ st[v].highlightedStep = 1
        /\ st[v].hv # {}
        /\ st[v].overlay = 1
        /\ sent[v] = <<>>

(***************************************************************************)
(* C19: a cross-frame message that is no object, or whose type the viewer  *)
(* does not know, is ignored: the viewer's state is unchanged, no MIDI is  *)
(* sent and nothing is posted to the parent.  A harmony-activate whose     *)
(* slideIndex is missing or no number is not ignored: it is handled as     *)
(* harmony-activate with slideIndex 0.                                     *)
(***************************************************************************)
UnknownMessages ==
    {NotAnObject,
     [type |-> "reveal-slide-visible", slideIndex |-> 1],
     [type |-> "harmony-resize", slideIndex |-> NaN],
     [type |-> "", slideIndex |-> 200]}

ActivateNoIndex == [type |-> "harmony-activate", slideIndex |-> NaN]

C20_HeightRelayed ==
    \A v \in opened \cap Embedded :
        (frames[v].last # NoReport /\ frames[v].last.height > 0) =>
            /\ frames[v].iframe = frames[v].last.height
            /\ frames[v].section = frames[v].last.height
            /\ frames[v].layout

(***************************************************************************)
(* C21: partitioning determinism.  For the score a page has loaded, the    *)
(* step list it holds is the step list of the partitioner, and running the *)
(* partitioner again, after any resize of the window and at any fit scale, *)
(* yields the same number of steps, the same order and the same note ids   *)
(* in every step.                                                          *)
(***************************************************************************)
Partitioned(v) == v \in opened /\ st[v].pc \in {"analysis", "ready"}

C21_PartitionDeterminism ==
    \A v \in Viewers : Partitioned(v) =>
        /\ st[v].harmonicSteps = buildHarmonicStepsFromSvg(score)
        /\ \A w \in ContainerWidths :
              LET resized == applySvgFitToContainer(
                                 [st[v] EXCEPT !.containerW = w])
              IN  /\ resized.harmonicSteps = st[v].harmonicSteps
                  /\ loadAndRenderFrame(resized).harmonicSteps
                         = st[v].harmonicSteps

\* a page zoomed to twice the width whose first step holds two note groups
\* of different x
C21_Witness ==
    \E v \in Viewers :
        /\ Partitioned(v)
        /\ st[v].scale = 2
        /\ Len(score) = 2
        /\ score[1].x # score[2].x
        /\ st[v].harmonicSteps = <<<<1, 2>>>>

(***************************************************************************)
(* C22: the partitioner never produces an empty step.  Every step of the   *)
(* step list holds at least one note group, every note group of a step has *)
(* a notehead, and a note group without a notehead is in no step: a score  *)
(* whose note groups all lack a notehead has no step.                      *)
(***************************************************************************)
HasNotehead(id) == \E k \in 1..Len(score) : score[k].id = id /\ score[k].use

AllStepIds(s) ==
    UNION {{s.harmonicSteps[k][n] : n \in 1..Len(s.harmonicSteps[k])} :
              k \in 1..Len(s.harmonicSteps)}

C22_NoEmptyStep ==
    \A v \in Viewers : Partitioned(v) =>
        /\ \A k \in 1..Len(st[v].harmonicSteps) :
              Len(st[v].harmonicSteps[k]) >= 1
        /\ \A id \in AllStepIds(st[v]) : HasNotehead(id)
        /\ (\A k \in 1..Len(score) : ~score[k].use)
              => st[v].harmonicSteps = <<>>

\* a score with a note group that has a notehead and one that has none,
\* partitioned into one step
C22_Witness ==
    \E v \in Viewers :
        /\ Partitioned(v)
        /\ \E k \in 1..Len(score) : ~score[k].use
        /\ Len(st[v].harmonicSteps) = 1

(***************************************************************************)
(* C23: the pitch code of a note with pitch class p and octave o is        *)
(* (o + 1) * 12 + pc(p), pc = C 0, D 2, E 4, F 5, G 7, A 9, B 11: for      *)
(* every pitch name and every octave 0..9, and in the pitch set a page     *)
(* resolves for a step, which holds that code for every note group of the  *)
(* step that has a pitch name and an octave.  C octave 4 gives 60, B       *)
(* octave 3 gives 59.                                                      *)
(***************************************************************************)
PitchClass == [c |-> 0, d |-> 2, e |-> 4, f |-> 5, g |-> 7, a |-> 9, b |-> 11]

Octaves == 0..9

NoteOf(id) == CHOOSE g \in {score[k] : k \in 1..Len(score)} : g.id = id

Resolved(g) == g.pname \in DOMAIN PitchClass /\ g.oct # NaN

PitchSet(s, k) == {s.stepPitches[k][n] : n \in 1..Len(s.stepPitches[k])}

C23_PitchCode ==
    /\ \A p \in DOMAIN PitchClass, o \in Octaves :
          midiFromPnameOct(p, o) = (o + 1) * 12 + PitchClass[p]
    /\ midiFromPnameOct("c", 4) = 60
    /\ midiFromPnameOct("b", 3) = 59
    /\ \A v \in Viewers : Partitioned(v) =>
          \A k \in 1..Len(st[v].harmonicSteps) :
              PitchSet(st[v], k) =
                  {(NoteOf(id).oct + 1) * 12 + PitchClass[NoteOf(id).pname] :
                      id \in {i \in {st[v].harmonicSteps[k][n] :
                                        n \in 1..Len(st[v].harmonicSteps[k])} :
                                 Resolved(NoteOf(i))}}

\* a page whose score is a C4 and a B3 in one step
C23_Witness ==
    \E v \in Viewers :
        /\ Partitioned(v)
        /\ \E k \in 1..Len(score) : score[k].pname = "c" /\ score[k].oct = 4
        /\ \E k \in 1..Len(score) : score[k].pname = "b" /\ score[k].oct = 3
        /\ st[v].stepPitches = <<<<59, 60>>>>

(***************************************************************************)
(* C24: the pitch set a page resolves for a step is deduplicated and       *)
(* sorted ascending: each pitch code is strictly greater than the one      *)
(* before it, so none occurs twice.                                        *)
(***************************************************************************)
StrictlyAscending(seq) == \A n \in 1..(Len(seq) - 1) : seq[n] < seq[n + 1]

C24_PitchSetSorted ==
    \A v \in Viewers : Partitioned(v) =>
        /\ Len(st[v].stepPitches) = Len(st[v].harmonicSteps)
        /\ \A k \in 1..Len(st[v].stepPitches) :
              StrictlyAscending(st[v].stepPitches[k])

\* a step of two note groups with the same pitch, resolved to one code, and
\* a step whose higher note comes first in the document
C24_Witness ==
    \E v \in Viewers :
        /\ Partitioned(v)
        /\ st[v].harmonicSteps = <<<<1, 2>>>>
        /\ \/ /\ NoteOf(1).oct = NoteOf(2).oct
              /\ NoteOf(1).pname = NoteOf(2).pname
              /\ st[v].stepPitches = <<<<60>>>>
           \/ /\ NoteOf(1).pname = "c" /\ NoteOf(2).pname = "b"
              /\ st[v].stepPitches = <<<<59, 60>>>>

(***************************************************************************)
(* C25: every pitch code a page puts on the wire in a Note-On is an        *)
(* integer in 0..127.  A stored pitch code is a natural number too, and it *)
(* exceeds 127 only for a note of octave 9 above G (A9 is 129, B9 is 131), *)
(* which is sent as 127.                                                   *)
(***************************************************************************)
NoteOnPitches(out) == {out[n][2] : n \in {m \in 1..Len(out) : out[m][1] = 144}}

GroupingOf(k) ==
    CHOOSE j \in 1..k :
        /\ ~score[j].joined
        /\ \A i \in (j + 1)..k : score[i].joined

InSteps(s) == {k \in 1..Len(score) : score[k].id \in AllStepIds(s)}

StepOf(s, k) ==
    CHOOSE n \in 1..Len(s.harmonicSteps) :
        \E m \in 1..Len(s.harmonicSteps[n]) :
            s.harmonicSteps[n][m] = score[k].id

C30_GroupingsAreSteps ==
    \A v \in Viewers : Partitioned(v) =>
        \A i, j \in InSteps(st[v]) :
            /\ (StepOf(st[v], i) = StepOf(st[v], j))
                   <=> (GroupingOf(i) = GroupingOf(j))
            /\ GroupingOf(i) < GroupingOf(j)
                   => StepOf(st[v], i) < StepOf(st[v], j)

(***************************************************************************)
(* C26: baseline stability.  In a page with an analysis whose baseline is  *)
(* computed, an overlay update for a non-zero step and then one for a      *)
(* different non-zero step show the overlay at the same vertical position, *)
(* the baseline plus 6, which no step selection changes; the horizontal    *)
(* position is the centre of the step's own note groups.                   *)
(***************************************************************************)
BaselineKnown(v) ==
    /\ v \in opened
    /\ st[v].pc = "ready"
    /\ st[v].analysis
    /\ st[v].baselineY # NaN

C26_BaselineStability ==
    \A v \in Viewers : BaselineKnown(v) =>
        /\ st[v].overlay # 0 => st[v].overlayTop = st[v].baselineY + 6
        /\ \A j, k \in 1..Len(st[v].harmonicSteps) : j # k =>
              LET first == highlightStep(v, st[v], j)
                  second == highlightStep(v, first, k)
              IN  /\ first.overlay = j /\ second.overlay = k
                  /\ first.baselineY = st[v].baselineY
                  /\ second.baselineY = st[v].baselineY
                  /\ first.overlayTop = second.overlayTop
                  /\ first.overlayLeft
                         = ScreenCentre(st[v], st[v].harmonicSteps[j])
                  /\ second.overlayLeft
                         = ScreenCentre(st[v], st[v].harmonicSteps[k])

\* a page of two steps, the first at x 0, the second at x 300, that shows the
\* overlay of its second step
C26_Witness ==
    \E v \in Viewers :
        /\ BaselineKnown(v)
        /\ Len(st[v].harmonicSteps) = 2
        /\ st[v].overlay = 2
        /\ st[v].overlayLeft = 300 * st[v].scale
        /\ st[v].overlayTop = st[v].baselineY + 6

(***************************************************************************)
(* C27: every window resize sets the baseline to unknown and the next      *)
(* overlay display recomputes it: a baseline that is known is the baseline *)
(* of the layout the page has now, and an overlay that is displayed for a  *)
(* step is placed 6 below the baseline of the layout the page has now.     *)
(***************************************************************************)
C27_BaselineFresh ==
    \A v \in Viewers : BaselineKnown(v) =>
        /\ st[v].baselineY = computeGlobalAnalysisBaselineY(st[v])
        /\ \A k \in 1..Len(st[v].harmonicSteps) :
              LET shown == highlightStep(v, st[v], k)
              IN  shown.overlay = k =>
                      shown.overlayTop
                          = computeGlobalAnalysisBaselineY(st[v]) + 6

(***************************************************************************)
(* C28: in a deck with at most one viewer per slide, whose viewers receive *)
(* messages from the bridge only, at most one viewer is active in every    *)
(* state, the states in which messages of a navigation round are still in  *)
(* flight included, whatever the order in which different viewers handle   *)
(* their messages.                                                         *)
(***************************************************************************)
OneViewerPerSlide ==
    \A v, w \in opened : v # w /\ slideOf[v] # NoSlide => slideOf[v] # slideOf[w]

C28_OneActiveInFlight ==
    OneViewerPerSlide => Cardinality(ActiveViewers) <= 1

(***************************************************************************)
(* C29: re-delivery of harmony-activate is idempotent.  A viewer that is   *)
(* active and handles a harmony-activate with the slide index it already   *)
(* has keeps isActiveViewer, the current step, currentSlideIndex, the      *)
(* steps, their pitches and the highlight, and sends again what the        *)
(* activation sends: CC 23, CC 24 and the Note-On set of the current step, *)
(* or, when the current step is 0, no Note-On but the all-notes-off        *)
(* (nothing at all while no output port is bound).                         *)
(***************************************************************************)
Redelivered(v) ==
    /\ HandlesActivate(v)
    /\ st[v].isActiveViewer
    /\ Clamp7(Head(inbox[v]).slideIndex) = st[v].currentSlideIndex

C29_ReactivateIdempotent ==
    [][\A v \in Viewers :
          Redelivered(v) =>
              /\ st'[v].isActiveViewer
              /\ st'[v].highlightedStep = st[v].highlightedStep
              /\ st'[v].currentSlideIndex = st[v].currentSlideIndex
              /\ st'[v].harmonicSteps = st[v].harmonicSteps
              /\ st'[v].stepPitches = st[v].stepPitches
              /\ st'[v].hv = st[v].hv
              /\ NoteOnsOf(sent'[v]) =
                    IF Bound(st[v]) /\ st[v].highlightedStep > 0
                    THEN NoteOns(st[v].stepPitches[st[v].highlightedStep])
                    ELSE <<>>
              /\ sent'[v] =
                    IF ~Bound(st[v]) THEN <<>>
                    ELSE <<StepCountCc(st[v]),
                           <<176, 24, st[v].currentSlideIndex>>>>
                         \o (IF st[v].highlightedStep > 0
                             THEN NoteOns(st[v].stepPitches[
                                              st[v].highlightedStep])
                             ELSE <<AllNotesOff>>)]_vars

\* an active viewer showing step 1 has handled a second harmony-activate:
\* the step's Note-On set is on the wire again
C29_Witness ==
    \E v \in Embedded :
        /\ began[v]
        /\ lastCall[v].op = "harmony-activate"
        /\ Clamp7(lastCall[v].arg) = st[v].currentSlideIndex
        /\ st[v].isActiveViewer
        /\ st[v].highlightedStep = 1
        /\ NoteOnsOf(sent[v]) = NoteOns(st[v].stepPitches[1])
        /\ NoteOnsOf(sent[v]) # <<>>

(***************************************************************************)
(* C31: a note group whose pitch cannot be resolved (no such pitch name,   *)
(* no octave) is skipped and the computation goes on: every step has its   *)
(* pitch sequence, which holds the code of every note group of the step    *)
(* that can be resolved and nothing else, and is empty when none of the    *)
(* step's note groups can be resolved.                                     *)
(***************************************************************************)
StepNotes(s, k) == {NoteOf(s.harmonicSteps[k][n]) : n \in 1..Len(s.harmonicSteps[k])}

C31_UnresolvableSkipped ==
    \A v \in Viewers : Partitioned(v) =>
        /\ Len(st[v].stepPitches) = Len(st[v].harmonicSteps)
        /\ \A k \in 1..Len(st[v].harmonicSteps) :
              /\ \A g \in StepNotes(st[v], k) :
                    Resolved(g) =>
                        (g.oct + 1) * 12 + PitchClass[g.pname]
                            \in PitchSet(st[v], k)
              /\ Cardinality(PitchSet(st[v], k))
                    <= Cardinality({g \in StepNotes(st[v], k) : Resolved(g)})
              /\ (\A g \in StepNotes(st[v], k) : ~Resolved(g))
                    => st[v].stepPitches[k] = <<>>

\* a step of a note group without a known pitch name and a C4, resolved to
\* the C4's code
C31_Witness ==
    \E v \in Viewers :
        /\ Partitioned(v)
        /\ st[v].harmonicSteps = <<<<1, 2>>>>
        /\ ~Resolved(NoteOf(1)) /\ Resolved(NoteOf(2))
        /\ st[v].stepPitches = <<<<60>>>>

(***************************************************************************)
(* C32: once the steps and their pitches are computed they never change:   *)
(* no step of a page (activation, deactivation, step selection by CC 22 or *)
(* the debug button, resize, step-count request, any other message, a      *)
(* timeout) modifies the step list or a step's pitch sequence.             *)
(***************************************************************************)
C32_StepsImmutable ==
    [][\A v \in Viewers :
          Partitioned(v) =>
              /\ Partitioned(v)'
              /\ st'[v].harmonicSteps = st[v].harmonicSteps
              /\ st'[v].stepPitches = st[v].stepPitches]_vars

\* a loaded page that has been activated, has had its first step selected
\* and has been deactivated, with its steps and pitches as loaded
C32_Witness ==
    \E v \in Embedded :
        /\ st[v].pc = "ready"
        /\ lastCall[v].op = "harmony-deactivate"
        /\ ~st[v].isActiveViewer
        /\ st[v].highlightedStep = 1
        /\ st[v].harmonicSteps = buildHarmonicStepsFromSvg(score)
        /\ st[v].stepPitches = <<<<60, 64, 67>>>>

(***************************************************************************)
(* C33: after every highlightStep call the note groups that carry the      *)
(* highlight mark are exactly the note groups of the current step, none    *)
(* when the current step is 0: so it is in every state of a page, and so   *)
(* it is after a call of highlightStep with any argument in any such       *)
(* state, whichever step was highlighted before.                           *)
(***************************************************************************)
C33_HighlightIsCurrentStep ==
    \A v \in Viewers :
        /\ st[v].hv = StepIds(st[v])
        /\ \A k \in {NaN} \cup (0 - 1)..(Len(st[v].harmonicSteps) + 1) :
              LET h == highlightStep(v, st[v], k)
              IN  /\ h.hv = StepIds(h)
                  /\ h.highlightedStep = 0 => h.hv = {}

\* a page of two steps whose second step is highlighted after the first
C33_Witness ==
    \E v \in Viewers :
        /\ Len(st[v].harmonicSteps) = 2
        /\ st[v].highlightedStep = 2
        /\ st[v].hv = {2}
        /\ highlightStep(v, st[v], 1).hv = {1}

(***************************************************************************)
(* C34: the step partitioner and the pitch resolver run only after the     *)
(* rendered SVG is in the document and the wait for the next animation     *)
(* frame is over: as long as a page has not passed that point it has no    *)
(* steps and no pitches, and the step that computes them starts where the  *)
(* SVG is in the document and the animation frame is awaited.              *)
(***************************************************************************)
C34_StepsAfterPaint ==
    [][\A v \in Viewers :
          /\ ~Partitioned(v) =>
                st[v].harmonicSteps = <<>> /\ st[v].stepPitches = <<>>
          /\ (~Partitioned(v) /\ Partitioned(v)') =>
                st[v].svg /\ st[v].pc = "raf"
          /\ (st[v].pc = "raf" \/ Partitioned(v)) => st[v].svg]_vars

\* the animation frame has come: the steps of the rendered score are
\* computed, the analysis is awaited
C34_Witness ==
    \E v \in Viewers :
        /\ v \in opened
        /\ st[v].pc = "analysis"
        /\ st[v].svg
        /\ st[v].harmonicSteps # <<>>
        /\ st[v].stepPitches # <<>>

(***************************************************************************)
(* C35: a resize, a message or a CC input that a page handles before its   *)
(* steps are computed is harmless: after it the current step is still 0,   *)
(* nothing is highlighted, the overlay is hidden and no Note-On is on the  *)
(* wire.  In every reachable state the current step is within              *)
(* 0..number of steps.                                                     *)
(***************************************************************************)
C35_SafeBeforeSteps ==
    [][\A v \in Viewers :
          /\ st[v].highlightedStep \in 0..Len(st[v].harmonicSteps)
          /\ st'[v].highlightedStep \in 0..Len(st'[v].harmonicSteps)
          /\ ~Partitioned(v) =>
                /\ st'[v].highlightedStep = 0
                /\ st'[v].hv = {}
                /\ st'[v].overlay = 0
                /\ NoteOnsOf(sent'[v]) = <<>>]_vars

\* an embedded page that is active and still waits for its score has
\* handled a step selection: the all-notes-off is all it has sent
C35_Witness ==
    \E v \in Embedded :
        /\ v \in opened
        /\ st[v].pc \in {"fetch", "raf"}
        /\ st[v].isActiveViewer
        /\ st[v].highlightedStep = 0
        /\ sent[v] = <<AllNotesOff>>
        /\ posted[v] # <<>>

(***************************************************************************)
(* The page of the alternative protocol's viewer alone: its load chain,    *)
(* animation frames, messages of a host, control changes of the            *)
(* controller and resizes of the window, in any order.                     *)
(***************************************************************************)
InitReveal ==
    /\ score = SvgNotes
    /\ opened = {}
    /\ midiAccess \in {AllPorts, NoOutput}
    /\ slideOf = [f \in Embedded |-> NoSlide]
    /\ current = NoSlide
    /\ inbox = [v \in Viewers |-> <<>>]
    /\ st = [v \in Viewers |-> InitialViewer(v)]
    /\ sent = [v \in Viewers |-> <<>>]
    /\ posted = [v \in Viewers |-> <<>>]
    /\ wire24 = [v \in Viewers |-> NaN]
    /\ wire23 = [v \in Viewers |-> LoadedWire23(st[v])]
    /\ lastCall = [v \in Viewers |-> NoCall]
    /\ began = [v \in Viewers |-> FALSE]
    /\ frames = InitialFrames
    /\ alt = InitialAlt
    /\ pick = NoPick

NextReveal ==
    \/ \E ok \in BOOLEAN : AltFetchResolved(ok)
    \/ \E present \in BOOLEAN : AltAnalysisResolved(present)
    \/ AltMidiResolved
    \/ AltAnimationFrame
    \/ \E d \in AltMessages : AltMessage(d)
    \/ \E data \in MidiData : AltMidiIn(data)
    \/ AltWindowResize

SpecReveal == InitReveal /\ [][NextReveal]_vars

(***************************************************************************)
(* C36: in the viewer of the alternative protocol, the handler of a        *)
(* reveal-slide-visible message sends, to a bound output port, CC 24 with  *)
(* the slideIndex clamped to 0..127 when the message carries a number, and *)
(* then CC 23 with the step count (a port is bound only after the steps    *)
(* are ready); it leaves the current step 0, no notehead highlighted, the  *)
(* overlay hidden and the baseline null, and it requests an animation      *)
(* frame, in whose callback the score is fitted and, once an SVG is        *)
(* rendered, one harmony-resize report is posted.  A message of another    *)
(* type changes nothing.                                                   *)
(***************************************************************************)
RevealHandled == alt.event.type = "reveal-slide-visible"

RevealOut(a, d) ==
    (IF a.midiOut /\ d.slideIndex # NaN
     THEN <<<<176, 24, Clamp7(d.slideIndex)>>>> ELSE <<>>)
    \o (IF a.midiOut
        THEN <<<<176, 23, Min2(127, Len(a.steps))>>>> ELSE <<>>)

LoadStep(v) ==
    \/ InitMidiResolved(v)
    \/ InitMidiRejected(v)
    \/ \E ok \in BOOLEAN : FetchResolved(v, ok)
    \/ AnimationFrame(v)
    \/ \E present \in BOOLEAN : AnalysisResolved(v, present)

\* a step of the load chain is pending: ENABLED <<LoadStep(v)>>_vars
Loading(v) ==
    v \in opened /\ st[v].pc \in {"initMidi", "fetch", "raf", "analysis"}

\* weak fairness of the load chain's steps, WF_vars(LoadStep(v)), written
\* with its enabling condition
SpecLoad ==
    /\ Init /\ [][Next]_vars
    /\ \A v \in Viewers :
          []<>(~Loading(v)) \/ []<><<LoadStep(v)>>_vars

(***************************************************************************)
(* C37: the step count on the wire catches up with the load.  Whenever the *)
(* load of an active viewer with a bound output port has finished, the     *)
(* latest CC 23 it has put on the wire carries min(127, step count), in    *)
(* whatever order activations, deactivations and the steps of the load     *)
(* were handled; the step that finishes the load in such a viewer sends    *)
(* that CC 23 itself; and the load of every opened page finishes or fails. *)
(***************************************************************************)
Loaded(v) == v \in opened /\ st[v].pc = "ready"

CountOnWire(v) == wire23[v] = Min2(127, Len(st[v].harmonicSteps))

C37_CountCatchesUp ==
    /\ [](\A v \in Viewers :
            (Loaded(v) /\ st[v].isActiveViewer /\ st[v].midiOut # NoPort)
                => CountOnWire(v))
    /\ [][\A v \in Viewers :
            (~Loaded(v) /\ Loaded(v)' /\ st'[v].isActiveViewer
                /\ st'[v].midiOut # NoPort)
                => /\ sent'[v] # <<>>
                   /\ sent'[v][Len(sent'[v])] = StepCountCc(st'[v])]_vars
    /\ <>(\A v \in opened : st[v].pc \in {"ready", "failed"})

\* an embedded viewer was activated with its port bound before its load had
\* finished; the load's last step has just sent the count of the steps
C37_Witness ==
    \E v \in Embedded :
        /\ Loaded(v)
        /\ lastCall[v].op = "harmony-activate" /\ lastCall[v].bound
        /\ st[v].isActiveViewer
        /\ inbox[v] = <<>>
        /\ sent[v] # <<>>
        /\ sent[v][Len(sent[v])] = <<176, 23, NumChords>>
        /\ wire23[v] = NumChords

(***************************************************************************)
(* The bridge's message listener with the messages any window can post to  *)
(* the deck's window.  The height of a message is a JavaScript value: t is *)
(* its type and v the number that Number() makes of it (NaN for a text     *)
(* that is no numeral and for undefined, 0 for null and false, 1 for       *)
(* true).                                                                  *)
(***************************************************************************)
JsNumber(n) == [t |-> "number", v |-> n]
JsString(n) == [t |-> "string", v |-> n]

\* 480, -5, 0, NaN, "300", "tall", "", true, null, undefined
Heights ==
    {JsNumber(480), JsNumber(0 - 5), JsNumber(0), JsNumber(NaN),
     JsString(300), JsString(NaN), JsString(0),
     [t |-> "boolean", v |-> 1], [t |-> "null", v |-> 0],
     [t |-> "undefined", v |-> NaN]}

\* Number(x)
Number(x) == x.v

NoData == [type |-> "(no object)", height |-> JsNumber(NaN)]

BridgeMessages ==
    {[type |-> "harmony-resize", height |-> h] : h \in Heights}
    \cup {[type |-> "viewer-height", height |-> JsNumber(480)],
          [type |-> "harmony-activate", height |-> [t |-> "undefined", v |-> NaN]],
          NoData}

\* a listener that takes a report from any window
onBridgeMessage_AnySource(fr, source, data) ==
    IF data = NoData \/ data.type # "harmony-resize" THEN fr
    ELSE IF Number(data.height) = NaN \/ Number(data.height) <= 0 THEN fr
    ELSE [f \in Embedded |->
             [fr[f] EXCEPT !.iframe = Number(data.height),
                           !.section = Number(data.height),
                           !.layout = TRUE]]

\* the listener: event.data must be an object; the height is
\* Number(msg.height)
onBridgeMessage(fr, source, data) ==
    IF data = NoData THEN fr
    ELSE onResizeMessage(fr, source,
                         [type |-> data.type, height |-> Number(data.height)])

\* a window (a viewer's, or any other) posts data to the deck's window
BridgeMessage(source, data) ==
    /\ source \in Viewers
    /\ frames' = onBridgeMessage(frames, source, data)
    /\ UNCHANGED <<pick, alt, opened, score, midiAccess, slideOf, current, inbox, st,
                   sent, posted, wire24, wire23, lastCall, began>>

InitBridge ==
    /\ score = SvgNotes
    /\ opened \in {{"A"}, {"A", "B"}}
    /\ midiAccess = AllPorts
    /\ slideOf \in IF opened = {"A"} THEN LayoutsOne ELSE LayoutsTwo
    /\ current = NoSlide
    /\ inbox = [v \in Viewers |-> <<>>]
    /\ st = [v \in Viewers |-> IF v \in opened THEN LoadedViewer(v)
                                ELSE InitialViewer(v)]
    /\ sent = [v \in Viewers |-> <<>>]
    /\ posted = [v \in Viewers |-> <<>>]
    /\ wire24 = [v \in Viewers |-> NaN]
    /\ wire23 = [v \in Viewers |-> LoadedWire23(st[v])]
    /\ lastCall = [v \in Viewers |-> NoCall]
    /\ began = [v \in Viewers |-> FALSE]
    /\ frames = InitialFrames
    /\ alt = InitialAlt
    /\ pick = NoPick

NextBridge ==
    \/ \E source \in Viewers, data \in BridgeMessages : BridgeMessage(source, data)
    \/ \E v \in Viewers, w \in ContainerWidths : Resize(v, w)
    \/ \E v \in Viewers, k \in 1..2 : BridgeRelay(v, k)

SpecBridge == InitBridge /\ [][NextBridge]_vars

(***************************************************************************)
(* C38: the bridge's listener changes sizes only for a harmony-resize      *)
(* message from the window of a harmony iframe of the deck whose height    *)
(* Number() converts to a positive number: a number, a numeral given as    *)
(* text ("300") or true (1).  Then it sets the height of that iframe and   *)
(* of its section to the converted height and runs the deck layout; no     *)
(* other iframe changes.  Any other message (no object, another type, a    *)
(* window that is no harmony iframe, a height that converts to 0, to a     *)
(* negative number or to NaN) leaves every iframe and section as it was    *)
(* and runs no layout.                                                     *)
(***************************************************************************)
Accepted(source, data) ==
    /\ data # NoData
    /\ data.type = "harmony-resize"
    /\ source \in getHarmonyIframes
    /\ Number(data.height) # NaN
    /\ Number(data.height) > 0

C38_ResizeOnlyOnValidReport ==
    [][\A source \in Viewers, data \in BridgeMessages :
          BridgeMessage(source, data) =>
              IF Accepted(source, data)
              THEN frames' = [frames EXCEPT
                                 ![source].iframe = Number(data.height),
                                 ![source].section = Number(data.height),
                                 ![source].layout = TRUE]
              ELSE frames' = frames]_vars

\* as stated: sizes change only when the height is a number
C38_AsStated ==
    [][\A source \in Viewers, data \in BridgeMessages :
          (BridgeMessage(source, data) /\ frames' # frames) =>
              (Accepted(source, data) /\ data.height.t = "number")]_vars

\* the iframe of A was resized by a report of A's window, the iframe of B
\* kept its default height and had no layout
C38_Witness ==
    /\ opened = {"A", "B"}
    /\ frames["A"].iframe = 480 /\ frames["A"].section = 480
    /\ frames["A"].layout
    /\ frames["B"] = InitialFrames["B"]

(***************************************************************************)
(* pickMidiPort called with any collection of up to MaxPorts ports, in any *)
(* order and with names repeated, and any hint.                            *)
(***************************************************************************)
MaxPorts == 3       \* ports of a collection

PortLists == UNION {[1..n -> PortNames] : n \in 0..MaxPorts}

InitPorts ==
    /\ score = SvgNotes
    /\ opened = {}
    /\ midiAccess = AllPorts
    /\ slideOf = [f \in Embedded |-> NoSlide]
    /\ current = NoSlide
    /\ inbox = [v \in Viewers |-> <<>>]
    /\ st = [v \in Viewers |-> InitialViewer(v)]
    /\ sent = [v \in Viewers |-> <<>>]
    /\ posted = [v \in Viewers |-> <<>>]
    /\ wire24 = [v \in Viewers |-> NaN]
    /\ wire23 = [v \in Viewers |-> NaN]
    /\ lastCall = [v \in Viewers |-> NoCall]
    /\ began = [v \in Viewers |-> FALSE]
    /\ frames = InitialFrames
    /\ alt = InitialAlt
    /\ pick \in {[ports |-> ps, hint |-> h, result |-> NoPort, done |-> FALSE] :
                     ps \in PortLists, h \in Hints}

CallPickMidiPort ==
    /\ ~pick.done
    /\ pick' = [pick EXCEPT !.result = pickMidiPort(pick.ports, pick.hint),
                            !.done = TRUE]
    /\ UNCHANGED <<alt, opened, score, midiAccess, slideOf, current, inbox, st,
                   sent, posted, wire24, wire23, frames, lastCall, began>>

SpecPorts == InitPorts /\ [][CallPickMidiPort]_vars

(***************************************************************************)
(* C39: pickMidiPort returns null exactly when the collection is empty.    *)
(* With at least one port it returns a port of the collection: the first   *)
(* whose normalized name contains the normalized hint; if there is none    *)
(* and the hint contains browser or max, the first whose normalized name   *)
(* contains each of those two words that the hint contains; and if there   *)
(* is none either, the first port, whatever its name.                      *)
(***************************************************************************)
First(S) == CHOOSE k \in S : \A j \in S : k <= j

Direct(ps, h) ==
    {k \in 1..Len(ps) : includes(normalizePortName(ps[k]), normalizePortName(h))}

Keyword(ps, h) ==
    LET words == {w \in {<<"b", "r", "o", "w", "s", "e", "r">>, <<"m", "a", "x">>} :
                     includes(normalizePortName(h), w)}
    IN  IF words = {} THEN {}
        ELSE {k \in 1..Len(ps) :
                 \A w \in words : includes(normalizePortName(ps[k]), w)}

C39_PickMidiPort ==
    pick.done =>
        LET ps == pick.ports
            h == pick.hint
        IN  /\ (pick.result = NoPort) <=> (ps = <<>>)
            /\ ps # <<>> =>
                  pick.result =
                      IF Direct(ps, h) # {} THEN ps[First(Direct(ps, h))]
                      ELSE IF Keyword(ps, h) # {} THEN ps[First(Keyword(ps, h))]
                      ELSE ps[1]

\* no port matches the hint midi2, directly or by a keyword: the first port
\* is returned
C39_Witness ==
    /\ pick.done
    /\ pick.ports = <<"USB Keyboard", "IAC Max->Browser">>
    /\ pick.hint = "midi2"
    /\ Direct(pick.ports, pick.hint) = {}
    /\ pick.result = "USB Keyboard"

====
